---- MODULE Spec2Model ----
(***************************************************************************)
(* aisafeguard: the tiered scanner Pipeline (pipeline.py), the Policy      *)
(* Engine (policy.py) and the Guard (guard.py), modelled as state          *)
(* machines.                                                               *)
(*                                                                         *)
(* An optional value (Python's `x | None`) is a sequence of length at most *)
(* one: <<>> is None, <<v>> is the value v.  In a Pipeline run a text is   *)
(* the set of redaction marks that have been applied to the caller's       *)
(* input: the input itself is the empty set, and a scanner that rewrites   *)
(* the text it was given adds its own mark to it.  The Guard is handed     *)
(* several texts, so there a text is a record of what was written and the  *)
(* marks applied since.                                                    *)
(***************************************************************************)
EXTENDS Integers, Sequences, FiniteSets, TLC

\* ---------------------------------------------------------------- bounds
\* The largest number of scanners registered in one Pipeline.
MaxScanners == 2

\* The largest number of entries in one map (input, output) of a GuardConfig.
MaxConfigured == 1

\* The number of calls made concurrently on one Guard.
MaxCalls == 2

\* The largest number of entries in one map of a GuardConfig whose
\* construction is followed entry by entry.
MaxBuilt == 2

\* The largest max_requests_per_minute a proxy is created with.
MaxRequests == 1

\* The largest number of matches the patterns of one scanner find in a text.
MaxFindings == 2

\* The largest length of a text handed to the PII scanner.
MaxText == 4

\* The largest max_requests of a RateLimiter followed on its own.
MaxQuota == 2

\* The largest window_seconds of a RateLimiter followed on its own.
MaxWindow == 1

\* The largest reading of the clock while a RateLimiter is followed.
MaxClock == 3

\* ------------------------------------------------------------ models.py
BLOCK == "block"
WARN == "warn"
LOG == "log"
REDACT == "redact"
Action == {BLOCK, WARN, LOG, REDACT}

FAST == 1
MEDIUM == 2
SLOW == 3
Tier == {FAST, MEDIUM, SLOW}

None == <<>>
Some(v) == <<v>>

\* The class attribute `name` of the scanner registered at position i.
ScannerNames == <<"prompt_injection", "pii", "toxicity", "relevance", "jailbreak">>
NameOf(i) == ScannerNames[i]
Names == {NameOf(i) : i \in 1..MaxScanners}

\* ------------------------------------------------------------ variables
VARIABLES
    scanners,         \* Pipeline.scanners: sequence of [name, tier]
    fail_action,      \* Pipeline.fail_action
    fail_fast,        \* Pipeline.fail_fast
    scanner_actions,  \* Pipeline.scanner_actions: name -> Action (partial)
    text,             \* run(text, ...): the caller's input text
    context,          \* run(..., context): the caller's context (optional)
    pc,               \* position of the run coroutine
    tier,             \* loop variable of `for tier in [FAST, MEDIUM, SLOW]`
    status,           \* per scanner: "idle", "running" (execute awaited), "done"
    seen,             \* per scanner: the text execute was called with
    seen_context,     \* per scanner: the context execute was called with
    ran,              \* per scanner: number of times execute was called
    tier_results,     \* the slots of asyncio.gather, one per scanner
    order,            \* the order in which the scanners of the gather completed
    all_results,      \* local all_results
    sanitized,        \* local sanitized
    passed,           \* local passed
    result,           \* the returned PipelineResult (optional)
    default_action,   \* PolicyEngine.default_action
    action_overrides, \* PolicyEngine._action_overrides: name -> Action (partial)
    policy_arg,       \* the PipelineResult the caller hands to decide / enforce (optional)
    decision,         \* what decide returned for it (optional: not called yet)
    enforced,         \* how enforce ended for it (optional: not called yet)
    resolve_results,  \* the list a caller hands to Pipeline._resolve_action
    resolved,         \* what _resolve_action returned for it (optional: not called yet)
    resolve_prev,     \* the call before one more ScanResult was added (optional)
    config_input,     \* GuardConfig.input: items [name, enabled, action] in insertion order
    config_output,    \* GuardConfig.output, likewise
    settings_fail_action, \* GuardConfig.settings.fail_action
    input_pipeline,   \* Guard._input_pipeline: [scanners, fail_action, scanner_actions]
    output_pipeline,  \* Guard._output_pipeline
    input_text,       \* Guard.run(input_text, ...) (optional)
    output_text,      \* Guard.run(..., output_text, ...) (optional)
    caller_context,   \* the dict object the caller passed as context (optional)
    run_pc,           \* position of the Guard.run coroutine
    report,           \* local report of Guard.run
    ctx,              \* the dict scan_output was called with (optional: not called)
    calls,            \* concurrent calls on one Guard: [kind, input_text, output_text, context]
    call_pc,          \* per call: position of its coroutine
    call_result,      \* per call: the Report (or PipelineResult) it has built
    call_ctx,         \* per call: the dict object handed to scan_output (optional id)
    observed,         \* per call: what its output scanners read from their context
    dicts,            \* the dict objects: id -> contents
    self_scanner,     \* BaseScanner.execute: the scanner executing, [name, tier]
    scan_returned,    \* the ScanResult its scan method returned
    execute_returned, \* the ScanResult execute returned (optional: not called yet)
    scan_call,        \* the last Guard.scan_input / scan_output call: [direction, result] (optional)
    adapter,          \* the adapter around the Guard: [kind, on_block, input, output, api_key]
    limiter_hits,     \* RateLimiter._hits[user]: number of time stamps queued
    caller_prompt,    \* the prompt in the arguments of the guarded call (optional)
    adapter_pc,       \* position of the adapter's coroutine
    prompt_text,      \* local prompt_text / prompt / user_prompt (optional)
    input_result,     \* local input_result (optional: no input scan)
    model_call,       \* the arguments the wrapped function / upstream was invoked with (optional)
    model_response,   \* what it returned: the text blocks of the response (optional)
    output_context,   \* the context scan_output was called with (optional)
    output_result,    \* local output_result (optional: no output scan)
    outcome,          \* how the guarded call ended (optional: not yet)
    built_in,         \* a built-in scanner object: [name, threshold]
    detected,         \* what its patterns find in the text it is given
    scan_result,      \* the ScanResult its scan method returned (optional: not called yet)
    pii_text,         \* the text handed to the PII scanner
    pii_findings,     \* what _detect_pii finds in it: [entity_type, start, end]
    pii_result,       \* the ScanResult of the PII scanner (optional: not called yet)
    self_limiter,     \* a RateLimiter on its own: [max_requests, window_seconds]
    time_now,         \* the reading of time.time(), in seconds
    self_hits,        \* RateLimiter._hits: key -> queue of time stamps
    granted,          \* per key, the time stamps of the allow calls that returned True
    last_allow,       \* the last allow call: [key, now, returned] (optional)
    guard_args,       \* guard(input=..., output=...): [input, output], each a set of names or None
    guard_config,     \* the GuardConfig the decorator loaded: [input, output] (optional)
    scan_error        \* the error a scanner's scan method raised: [scanner, direction] (optional)

pipelineConfig == <<scanners, fail_action, fail_fast, scanner_actions>>
runLocals == <<tier, status, seen, seen_context, ran, tier_results, order, all_results, sanitized, passed>>
pipelineVars == <<pipelineConfig, text, context, pc, runLocals, result>>
policyConfig == <<default_action, action_overrides>>
policyVars == <<policyConfig, policy_arg, decision, enforced>>
vars == <<scanners, fail_action, fail_fast, scanner_actions, text, context, pc, tier,
          status, seen, seen_context, ran, tier_results, order, all_results, sanitized, passed, result,
          default_action, action_overrides, policy_arg, decision, enforced,
          resolve_results, resolved, resolve_prev,
          config_input, config_output, settings_fail_action, input_pipeline,
          output_pipeline, input_text, output_text, caller_context, run_pc, report, ctx,
          calls, call_pc, call_result, call_ctx, observed, dicts,
          self_scanner, scan_returned, execute_returned, scan_call,
          adapter, limiter_hits, caller_prompt, adapter_pc, prompt_text, input_result,
          model_call, model_response, output_context, output_result, outcome,
          built_in, detected, scan_result, pii_text, pii_findings, pii_result,
          self_limiter, time_now, self_hits, granted, last_allow,
          guard_args, guard_config, scan_error>>

resolveVars == <<resolve_results, resolved, resolve_prev>>
guardConfig == <<config_input, config_output, settings_fail_action, input_pipeline,
                 output_pipeline>>
runVars == <<input_text, output_text, caller_context, run_pc, report, ctx>>
callVars == <<calls, call_pc, call_result, call_ctx, observed, dicts>>
guardVars == <<guardConfig, runVars, callVars>>
executeVars == <<self_scanner, scan_returned, execute_returned>>
buildVars == <<scan_call>>
adapterVars == <<adapter, limiter_hits, caller_prompt, adapter_pc, prompt_text, input_result,
                 model_call, model_response, output_context, output_result, outcome>>
scannerVars == <<built_in, detected, scan_result>>
piiVars == <<pii_text, pii_findings, pii_result>>
limiterVars == <<self_limiter, time_now, self_hits, granted, last_allow>>
decoratorVars == <<guard_args, guard_config>>
errorVars == <<scan_error>>
finalVars == <<limiterVars, decoratorVars, errorVars>>
laterVars == <<executeVars, buildVars, adapterVars, scannerVars, piiVars, finalVars>>
outsidePipeline == <<policyVars, resolveVars, guardVars, laterVars>>
outsidePolicy == <<pipelineVars, resolveVars, guardVars, laterVars>>

Idx == 1..Len(scanners)

\* ----------------------------------------------------------- pipeline.py
\* rank table of _resolve_action: BLOCK > REDACT > WARN > LOG
rank == [a \in Action |->
           CASE a = LOG -> 0 [] a = WARN -> 1 [] a = REDACT -> 2 [] a = BLOCK -> 3]

\* self.scanner_actions.get(name, self.fail_action)
ConfiguredAction(name, sa, fa) == IF name \in DOMAIN sa THEN sa[name] ELSE fa

\* Mutant of ResolveLoop: the action of the last failed result is selected.
RECURSIVE ResolveLoop_LastWins(_, _, _, _)
ResolveLoop_LastWins(failed_results, selected, sa, fa) ==
    IF failed_results = <<>> THEN selected
    ELSE ResolveLoop_LastWins(Tail(failed_results),
                              ConfiguredAction(Head(failed_results).scanner, sa, fa),
                              sa, fa)

\* the `for result in failed_results` loop of _resolve_action
RECURSIVE ResolveLoop(_, _, _, _)
ResolveLoop(failed_results, selected, sa, fa) ==
    IF failed_results = <<>> THEN selected
    ELSE LET action == ConfiguredAction(Head(failed_results).scanner, sa, fa)
         IN  ResolveLoop(Tail(failed_results),
                         IF rank[action] > rank[selected] THEN action ELSE selected,
                         sa, fa)

NotPassed(r) == ~r.passed

resolve_action(results, sa, fa) ==
    LET failed_results == SelectSeq(results, NotPassed)
    IN  IF failed_results = <<>> THEN LOG
        ELSE ResolveLoop(failed_results, LOG, sa, fa)

\* tiers[t]: the indices of the scanners of tier t, in registration order
RECURSIVE TierBucket(_, _, _)
TierBucket(s, t, i) ==
    IF i > Len(s) THEN <<>>
    ELSE (IF s[i].tier = t THEN <<i>> ELSE <<>>) \o TierBucket(s, t, i + 1)

tier_scanners == TierBucket(scanners, tier, 1)

Range(s) == {s[i] : i \in DOMAIN s}

\* What a scanner's own scan may return for the text it is given: any
\* verdict, and either no sanitized text, the text unchanged, or the text
\* with the scanner's redaction applied.  execute (base.py) stamps the
\* scanner's name and tier on it.
Rewrites(i, t) == {None, Some(t), Some(t \cup {i})}

Findings(i, ok) == IF ok THEN <<>> ELSE <<[scanner |-> NameOf(i)]>>

execute(i, t, ok, rewrite) ==
    [scanner   |-> scanners[i].name,
     tier      |-> scanners[i].tier,
     passed    |-> ok,
     findings  |-> Findings(i, ok),
     sanitized |-> rewrite]

\* Mutant of GatherResults: the results in the order of completion.
GatherResults_Completion(bucket, slots) ==
    [k \in 1..Len(order) |-> slots[order[k]][1]]

\* the value asyncio.gather returns: the filled slots in the order of its
\* arguments (the scanners of the tier in registration order)
RECURSIVE GatherResults(_, _)
GatherResults(bucket, slots) ==
    IF bucket = <<>> THEN <<>>
    ELSE slots[Head(bucket)] \o GatherResults(Tail(bucket), slots)

\* Mutant of GatherDone: resumes as soon as one execute has returned.
GatherDone_Any(bucket, st) == \E i \in Range(bucket) : st[i] = "done"

\* `await asyncio.gather(...)` resumes when every awaited execute has returned
GatherDone(bucket, st) == \A i \in Range(bucket) : st[i] = "done"

\* Mutant of Fold: passed is overwritten by each result.
RECURSIVE Fold_LastWins(_, _, _, _)
Fold_LastWins(rs, all, ok, san) ==
    IF rs = <<>> THEN [all_results |-> all, passed |-> ok, sanitized |-> san]
    ELSE LET r == Head(rs)
         IN  Fold_LastWins(Tail(rs), Append(all, r), r.passed,
                           IF r.sanitized # None THEN r.sanitized[1] ELSE san)

\* the `for result in tier_results` loop
RECURSIVE Fold(_, _, _, _)
Fold(rs, all, ok, san) ==
    IF rs = <<>> THEN [all_results |-> all, passed |-> ok, sanitized |-> san]
    ELSE LET r == Head(rs)
         IN  Fold(Tail(rs), Append(all, r),
                  IF ~r.passed THEN FALSE ELSE ok,
                  IF r.sanitized # None THEN r.sanitized[1] ELSE san)

PipelineResult(ok, results, action, san) ==
    [passed |-> ok, results |-> results, action_taken |-> action, sanitized |-> san]

\* models.py: PipelineResult.findings / failed_scanners
RECURSIVE findings(_)
findings(results) ==
    IF results = <<>> THEN <<>> ELSE Head(results).findings \o findings(Tail(results))

RECURSIVE failed_scanners(_)
failed_scanners(results) ==
    IF results = <<>> THEN <<>>
    ELSE (IF ~Head(results).passed THEN <<Head(results).scanner>> ELSE <<>>)
         \o failed_scanners(Tail(results))

\* ------------------------------------------------------------- policy.py
\* Mutant of get_action: a scanner without an override is logged.
get_action_NoDefault(scanner_name, overrides, default) ==
    IF scanner_name \in DOMAIN overrides THEN overrides[scanner_name] ELSE LOG

\* PolicyEngine.get_action
get_action(scanner_name, overrides, default) ==
    IF scanner_name \in DOMAIN overrides THEN overrides[scanner_name] ELSE default

\* Mutant of PolicyDecision: blocked is never set.
PolicyDecision_NotBlocked(action, blocked, san) ==
    [action |-> action, blocked |-> FALSE, sanitized |-> san]

PolicyDecision(action, blocked, san) ==
    [action |-> action, blocked |-> blocked, sanitized |-> san]

\* Mutant of DecideLoop: the failed scanners are not looked at again.
DecideLoop_NoVeto(results, action, overrides, default) == action

\* the `for scan_result in result.results` loop of decide
RECURSIVE DecideLoop(_, _, _, _)
DecideLoop(results, action, overrides, default) ==
    IF results = <<>> THEN action
    ELSE IF ~Head(results).passed
            /\ get_action(Head(results).scanner, overrides, default) = BLOCK
         THEN BLOCK
         ELSE DecideLoop(Tail(results), action, overrides, default)

\* Mutant of decide: a passed result is not returned early.
decide_NoEarlyReturn(r, overrides, default) ==
    LET action == DecideLoop(r.results, r.action_taken, overrides, default)
    IN  PolicyDecision(action, action = BLOCK,
                       IF action = REDACT THEN r.sanitized ELSE None)

\* PolicyEngine.decide
decide(r, overrides, default) ==
    IF r.passed THEN PolicyDecision(LOG, FALSE, None)
    ELSE LET action == DecideLoop(r.results, r.action_taken, overrides, default)
         IN  PolicyDecision(action, action = BLOCK,
                            IF action = REDACT THEN r.sanitized ELSE None)

\* PolicyViolation(result, "Blocked by scanners: " + ", ".join(failed))
PolicyViolation(r, failed) == [result |-> r, message |-> <<"Blocked by scanners", failed>>]

\* Mutant of enforce: blocks on the Pipeline's own action_taken, not on the decision.
enforce_PipelineAction(r, overrides, default) ==
    LET d == decide(r, overrides, default)
        warned == IF d.action = WARN THEN <<"Policy WARN">> ELSE <<>>
    IN  IF d.action = REDACT
        THEN [kind |-> "return", value |-> d.sanitized, raised |-> None,
              logged |-> warned \o <<"Policy REDACT">>]
        ELSE IF ~r.passed /\ r.action_taken = BLOCK
        THEN [kind |-> "raise", value |-> None,
              raised |-> Some(PolicyViolation(r, failed_scanners(r.results))),
              logged |-> warned \o <<"Policy BLOCK">>]
        ELSE [kind |-> "return", value |-> None, raised |-> None,
              logged |-> warned \o <<"Policy LOG">>]

\* Mutant of enforce: the sanitized text is returned on WARN and LOG too.
enforce_AlwaysSanitized(r, overrides, default) ==
    LET d == decide(r, overrides, default)
        warned == IF d.action = WARN THEN <<"Policy WARN">> ELSE <<>>
    IN  IF d.action = REDACT
        THEN [kind |-> "return", value |-> d.sanitized, raised |-> None,
              logged |-> warned \o <<"Policy REDACT">>]
        ELSE IF d.blocked
        THEN [kind |-> "raise", value |-> None,
              raised |-> Some(PolicyViolation(r, failed_scanners(r.results))),
              logged |-> warned \o <<"Policy BLOCK">>]
        ELSE [kind |-> "return", value |-> r.sanitized, raised |-> None,
              logged |-> warned \o <<"Policy LOG">>]

\* PolicyEngine.enforce: the call either returns a value (an optional text)
\* or raises; `logged` lists the log events it emitted.
enforce(r, overrides, default) ==
    LET d == decide(r, overrides, default)
        warned == IF d.action = WARN THEN <<"Policy WARN">> ELSE <<>>
    IN  IF d.action = REDACT
        THEN [kind |-> "return", value |-> d.sanitized, raised |-> None,
              logged |-> warned \o <<"Policy REDACT">>]
        ELSE IF d.blocked
        THEN [kind |-> "raise", value |-> None,
              raised |-> Some(PolicyViolation(r, failed_scanners(r.results))),
              logged |-> warned \o <<"Policy BLOCK">>]
        ELSE [kind |-> "return", value |-> None, raised |-> None,
              logged |-> warned \o <<"Policy LOG">>]

\* ------------------------------------------------------------------ Init
\* The context mapping a caller hands to run.
Contexts == {Some([request |-> "r1"])}

ScannerLists ==
    UNION {[1..n -> Tier] : n \in 0..MaxScanners}

Overrides == UNION {[D -> Action] : D \in SUBSET Names}

\* No PolicyEngine call has been made; PolicyEngine() as constructed by default.
PolicyIdle ==
    /\ default_action = BLOCK
    /\ action_overrides = <<>>
    /\ policy_arg = None
    /\ decision = None
    /\ enforced = None

\* _resolve_action has not been called on its own.
ResolveIdle ==
    /\ resolve_results = <<>>
    /\ resolved = None
    /\ resolve_prev = None

\* BaseScanner.execute has not been called on its own.
ExecuteIdle ==
    /\ self_scanner = None
    /\ scan_returned = None
    /\ execute_returned = None

\* Neither scan_input nor scan_output has been called on its own.
BuildIdle ==
    /\ scan_call = None

\* No adapter has been put around a Guard.
AdapterIdle ==
    /\ adapter = None
    /\ limiter_hits = 0
    /\ caller_prompt = None
    /\ adapter_pc = "start"
    /\ prompt_text = None
    /\ input_result = None
    /\ model_call = None
    /\ model_response = None
    /\ output_context = None
    /\ output_result = None
    /\ outcome = None

\* No built-in scanner has been constructed on its own.
ScannerIdle ==
    /\ built_in = None
    /\ detected = None
    /\ scan_result = None

\* The PII scanner has not been handed a text on its own.
PIIIdle ==
    /\ pii_text = <<>>
    /\ pii_findings = <<>>
    /\ pii_result = None

\* The keys (user ids) a RateLimiter is asked about.
Keys == {"u1", "u2"}

\* No RateLimiter is followed on its own.
LimiterIdle ==
    /\ self_limiter = None
    /\ time_now = 0
    /\ self_hits = [k \in Keys |-> <<>>]
    /\ granted = [k \in Keys |-> <<>>]
    /\ last_allow = None

\* No decorator is followed from its creation.
DecoratorIdle ==
    /\ guard_args = None
    /\ guard_config = None

\* No scan method has raised.
ErrorIdle ==
    /\ scan_error = None

FinalIdle ==
    /\ LimiterIdle
    /\ DecoratorIdle
    /\ ErrorIdle

\* Nothing outside the Pipeline, the Policy Engine and the Guard is in use.
LaterIdle ==
    /\ ExecuteIdle
    /\ BuildIdle
    /\ AdapterIdle
    /\ ScannerIdle
    /\ PIIIdle
    /\ FinalIdle

\* models.py: Report() as constructed by default
NewReport == [input_result |-> None, output_result |-> None, blocked |-> FALSE]

\* No concurrent call is being made.
CallsIdle ==
    /\ calls = <<>>
    /\ call_pc = <<>>
    /\ call_result = <<>>
    /\ call_ctx = <<>>
    /\ observed = <<>>
    /\ dicts = <<>>

\* Guard.run has not been called.
RunNotCalled ==
    /\ input_text = None
    /\ output_text = None
    /\ caller_context = None
    /\ run_pc = "input"
    /\ report = NewReport
    /\ ctx = None

\* No Guard has been constructed.
GuardIdle ==
    /\ config_input = <<>>
    /\ config_output = <<>>
    /\ settings_fail_action = BLOCK
    /\ input_pipeline = [scanners |-> <<>>, fail_action |-> BLOCK, scanner_actions |-> <<>>]
    /\ output_pipeline = [scanners |-> <<>>, fail_action |-> BLOCK, scanner_actions |-> <<>>]
    /\ input_text = None
    /\ output_text = None
    /\ caller_context = None
    /\ run_pc = "input"
    /\ report = NewReport
    /\ ctx = None
    /\ CallsIdle

Init ==
    /\ \E ts \in ScannerLists :
         scanners = [i \in DOMAIN ts |-> [name |-> NameOf(i), tier |-> ts[i]]]
    /\ fail_action \in Action
    /\ fail_fast \in BOOLEAN
    /\ scanner_actions \in Overrides
    /\ text = {}
    /\ context \in Contexts
    /\ pc = "start"
    /\ tier = FAST
    /\ status = [i \in 1..MaxScanners |-> "idle"]
    /\ seen = [i \in 1..MaxScanners |-> None]
    /\ seen_context = [i \in 1..MaxScanners |-> None]
    /\ ran = [i \in 1..MaxScanners |-> 0]
    /\ tier_results = [i \in 1..MaxScanners |-> None]
    /\ order = <<>>
    /\ all_results = <<>>
    /\ sanitized = {}
    /\ passed = TRUE
    /\ result = None
    /\ PolicyIdle
    /\ ResolveIdle
    /\ GuardIdle
    /\ LaterIdle

\* --------------------------------------------------------------- actions
\* The next tier at or after t that has scanners (`if not tier_scanners:
\* continue`, lines 59-60), or SLOW + 1 when the loop is exhausted.
RECURSIVE NextTier(_, _)
NextTier(s, t) ==
    IF t \notin Tier THEN t
    ELSE IF TierBucket(s, t, 1) # <<>> THEN t
    ELSE NextTier(s, t + 1)

\* run, lines 43-60: the locals are initialised, the scanners partitioned and
\* the loop entered.
RunStart ==
    /\ pc = "start"
    /\ pc' = "loop"
    /\ tier' = NextTier(scanners, FAST)
    /\ all_results' = <<>>
    /\ sanitized' = text
    /\ passed' = TRUE
    /\ UNCHANGED <<pipelineConfig, text, context, status, seen, seen_context, ran,
                   tier_results, order, result>>
    /\ UNCHANGED outsidePipeline

\* Mutant of FailFastHit: the overrides are ignored.
FailFastHit_DefaultOnly ==
    /\ fail_fast
    /\ all_results # <<>>
    /\ ~passed
    /\ fail_action = BLOCK

\* Mutant of FailFastHit: any failure stops the run.
FailFastHit_AnyFailure ==
    /\ fail_fast
    /\ all_results # <<>>
    /\ ~passed

\* line 62: the fail-fast condition
FailFastHit ==
    /\ fail_fast
    /\ all_results # <<>>
    /\ resolve_action(all_results, scanner_actions, fail_action) = BLOCK

\* Mutant of Returned: sanitized is set whenever some scanner returned text.
Returned_AnyRewrite ==
    Some(PipelineResult(passed, all_results,
                        resolve_action(all_results, scanner_actions, fail_action),
                        IF \E k \in DOMAIN all_results : all_results[k].sanitized # None
                        THEN Some(sanitized) ELSE None))

\* lines 76-86: the PipelineResult built from the locals
Returned ==
    Some(PipelineResult(passed, all_results,
                        resolve_action(all_results, scanner_actions, fail_action),
                        IF sanitized # text THEN Some(sanitized) ELSE None))

\* lines 62-63: `break`, and the return that follows the loop
LoopBreak ==
    /\ pc = "loop"
    /\ tier \in Tier
    /\ FailFastHit
    /\ result' = Returned
    /\ pc' = "done"
    /\ UNCHANGED <<pipelineConfig, text, context, runLocals>>
    /\ UNCHANGED outsidePipeline

\* Mutant of ExecuteArgs: every scanner is handed the caller's original text.
ExecuteArgs_Original(san, c) == [text |-> text, context |-> c]

\* line 66: the arguments of `s.execute(sanitized, context)`, the same for
\* every scanner of the tier
ExecuteArgs(san, c) == [text |-> san, context |-> c]

\* lines 65-67: every scanner of the tier is started with the current sanitized
LoopGather ==
    /\ pc = "loop"
    /\ tier \in Tier
    /\ ~FailFastHit
    /\ pc' = "gather"
    /\ status' = [i \in DOMAIN status |->
                    IF i \in Range(tier_scanners) THEN "running" ELSE status[i]]
    /\ seen' = [i \in DOMAIN seen |->
                    IF i \in Range(tier_scanners)
                    THEN Some(ExecuteArgs(sanitized, context).text) ELSE seen[i]]
    /\ seen_context' = [i \in DOMAIN seen_context |->
                    IF i \in Range(tier_scanners)
                    THEN Some(ExecuteArgs(sanitized, context).context)
                    ELSE seen_context[i]]
    /\ ran' = [i \in DOMAIN ran |->
                    IF i \in Range(tier_scanners) THEN ran[i] + 1 ELSE ran[i]]
    /\ tier_results' = [i \in DOMAIN tier_results |-> None]
    /\ order' = <<>>
    /\ UNCHANGED <<pipelineConfig, text, context, tier, all_results, sanitized, passed, result>>
    /\ UNCHANGED outsidePipeline

\* one awaited execute returns; the scanners of a gather complete in any order
ScanComplete(i) ==
    /\ pc = "gather"
    /\ status[i] = "running"
    /\ \E ok \in BOOLEAN, rewrite \in Rewrites(i, seen[i][1]) :
         tier_results' = [tier_results EXCEPT ![i] = Some(execute(i, seen[i][1], ok, rewrite))]
    /\ status' = [status EXCEPT ![i] = "done"]
    /\ order' = Append(order, i)
    /\ UNCHANGED <<pipelineConfig, text, context, pc, tier, seen, seen_context, ran,
                   all_results, sanitized, passed, result>>
    /\ UNCHANGED outsidePipeline

\* Mutant of GatherReturn: folding the results of a tier empties the
\* pipeline's override map.
GatherReturn_DropsOverrides ==
    /\ pc = "gather"
    /\ GatherDone(tier_scanners, status)
    /\ LET f == Fold(GatherResults(tier_scanners, tier_results),
                     all_results, passed, sanitized)
       IN  /\ all_results' = f.all_results
           /\ passed' = f.passed
           /\ sanitized' = f.sanitized
    /\ tier' = NextTier(scanners, tier + 1)
    /\ pc' = "loop"
    /\ scanner_actions' = <<>>
    /\ UNCHANGED <<scanners, fail_action, fail_fast, text, context, status, seen,
                   seen_context, ran, tier_results, order, result>>
    /\ UNCHANGED outsidePipeline

\* gather returns once every scanner of the tier has completed; lines 69-74,
\* then the loop moves to the next tier that has scanners
GatherReturn ==
    /\ pc = "gather"
    /\ GatherDone(tier_scanners, status)
    /\ LET f == Fold(GatherResults(tier_scanners, tier_results),
                     all_results, passed, sanitized)
       IN  /\ all_results' = f.all_results
           /\ passed' = f.passed
           /\ sanitized' = f.sanitized
    /\ tier' = NextTier(scanners, tier + 1)
    /\ pc' = "loop"
    /\ UNCHANGED <<pipelineConfig, text, context, status, seen, seen_context, ran,
                   tier_results, order, result>>
    /\ UNCHANGED outsidePipeline

\* the loop is exhausted; lines 76-86
Return ==
    /\ pc = "loop"
    /\ tier \notin Tier
    /\ result' = Returned
    /\ pc' = "done"
    /\ UNCHANGED <<pipelineConfig, text, context, runLocals>>
    /\ UNCHANGED outsidePipeline

Next ==
    \/ RunStart
    \/ LoopBreak
    \/ LoopGather
    \/ \E i \in Idx : ScanComplete(i)
    \/ GatherReturn
    \/ Return

Spec == Init /\ [][Next]_vars

\* ------------------------------------------------- the Policy Engine alone
\* A Pipeline on which run has not been called.
PipelineIdle ==
    /\ scanners = <<>>
    /\ fail_action = BLOCK
    /\ fail_fast = TRUE
    /\ scanner_actions = <<>>
    /\ text = {}
    /\ context = None
    /\ pc = "start"
    /\ tier = FAST
    /\ status = [i \in 1..MaxScanners |-> "idle"]
    /\ seen = [i \in 1..MaxScanners |-> None]
    /\ seen_context = [i \in 1..MaxScanners |-> None]
    /\ ran = [i \in 1..MaxScanners |-> 0]
    /\ tier_results = [i \in 1..MaxScanners |-> None]
    /\ order = <<>>
    /\ all_results = <<>>
    /\ sanitized = {}
    /\ passed = TRUE
    /\ result = None

\* The PipelineResults handed to the engine: any value of the model class
\* (models.py), whose fields are independent of each other, with at most
\* MaxScanners ScanResults of distinct scanners.
ScanResultLists ==
    {rs \in UNION {[1..n -> Names \X BOOLEAN] : n \in 0..MaxScanners} :
        \A i, j \in DOMAIN rs : i # j => rs[i][1] # rs[j][1]}

ScanResultOf(name, ok) ==
    [scanner   |-> name,
     tier      |-> FAST,
     passed    |-> ok,
     findings  |-> IF ok THEN <<>> ELSE <<[scanner |-> name]>>,
     sanitized |-> None]

PipelineResults ==
    {PipelineResult(ok, [i \in DOMAIN rs |-> ScanResultOf(rs[i][1], rs[i][2])], a, san) :
        ok \in BOOLEAN, rs \in ScanResultLists, a \in Action,
        san \in {None, Some({1})}}

\* PolicyEngine(default_action): any default, no override yet; the caller
\* holds some PipelineResult.
InitPolicy ==
    /\ PipelineIdle
    /\ default_action \in Action
    /\ action_overrides = <<>>
    /\ policy_arg \in {Some(r) : r \in PipelineResults}
    /\ decision = None
    /\ enforced = None
    /\ ResolveIdle
    /\ GuardIdle
    /\ LaterIdle

\* PolicyEngine.set_scanner_action.  The table is filled before the engine is
\* asked about the result (Guard.__init__ fills it at construction); decide
\* and enforce leave the engine unchanged, so a later change of the table
\* followed by a call reaches no state that filling the table first does not.
set_scanner_action(scanner_name, action) ==
    /\ decision = None
    /\ enforced = None
    /\ action_overrides' =
          [n \in DOMAIN action_overrides \cup {scanner_name} |->
              IF n = scanner_name THEN action ELSE action_overrides[n]]
    /\ UNCHANGED <<default_action, policy_arg, decision, enforced>>
    /\ UNCHANGED outsidePolicy

\* Mutant of Decide: the call resets the engine's default action.
Decide_ResetsDefault ==
    /\ policy_arg # None
    /\ decision' = Some(decide(policy_arg[1], action_overrides, default_action))
    /\ default_action' = LOG
    /\ UNCHANGED <<action_overrides, policy_arg, enforced>>
    /\ UNCHANGED outsidePolicy

\* a call of PolicyEngine.decide
Decide ==
    /\ policy_arg # None
    /\ decision' = Some(decide(policy_arg[1], action_overrides, default_action))
    /\ UNCHANGED <<policyConfig, policy_arg, enforced>>
    /\ UNCHANGED outsidePolicy

\* a call of PolicyEngine.enforce, which calls decide first
Enforce ==
    /\ policy_arg # None
    /\ decision' = Some(decide(policy_arg[1], action_overrides, default_action))
    /\ enforced' = Some(enforce(policy_arg[1], action_overrides, default_action))
    /\ UNCHANGED <<policyConfig, policy_arg>>
    /\ UNCHANGED outsidePolicy

NextPolicy ==
    \/ \E n \in Names, a \in Action : set_scanner_action(n, a)
    \/ Decide
    \/ Enforce

SpecPolicy == InitPolicy /\ [][NextPolicy]_vars

\* --------------------------------------------- _resolve_action on its own
\* The run locals of a Pipeline on which run has not been called.
RunIdle ==
    /\ text = {}
    /\ context = None
    /\ pc = "start"
    /\ tier = FAST
    /\ status = [i \in 1..MaxScanners |-> "idle"]
    /\ seen = [i \in 1..MaxScanners |-> None]
    /\ seen_context = [i \in 1..MaxScanners |-> None]
    /\ ran = [i \in 1..MaxScanners |-> 0]
    /\ tier_results = [i \in 1..MaxScanners |-> None]
    /\ order = <<>>
    /\ all_results = <<>>
    /\ sanitized = {}
    /\ passed = TRUE
    /\ result = None

\* Lists of ScanResults of any scanners, passed or failed.
ResultLists(n) ==
    UNION {[1..m -> {ScanResultOf(name, ok) : name \in Names, ok \in BOOLEAN}] : m \in 0..n}

\* A Pipeline with any override map and default, and a caller holding a list
\* of ScanResults one shorter than the longest list considered.
InitResolve ==
    /\ scanners = <<>>
    /\ fail_action \in Action
    /\ fail_fast = TRUE
    /\ scanner_actions \in Overrides
    /\ RunIdle
    /\ PolicyIdle
    /\ resolve_results \in ResultLists(MaxScanners - 1)
    /\ resolved = None
    /\ resolve_prev = None
    /\ GuardIdle
    /\ LaterIdle

\* rs with r inserted so that it becomes element number pos
InsertAt(rs, pos, r) ==
    [k \in 1..(Len(rs) + 1) |->
        IF k < pos THEN rs[k] ELSE IF k = pos THEN r ELSE rs[k - 1]]

\* a call self._resolve_action(resolve_results)
Resolve ==
    /\ resolved = None
    /\ resolved' = Some(resolve_action(resolve_results, scanner_actions, fail_action))
    /\ UNCHANGED <<resolve_results, resolve_prev>>
    /\ UNCHANGED <<pipelineVars, policyVars, guardVars, laterVars>>

\* the caller adds one more ScanResult to the list it asked about
AddResult(r, pos) ==
    /\ resolved # None
    /\ Len(resolve_results) < MaxScanners
    /\ resolve_prev' = Some([action |-> resolved[1], added |-> r])
    /\ resolve_results' = InsertAt(resolve_results, pos, r)
    /\ resolved' = None
    /\ UNCHANGED <<pipelineVars, policyVars, guardVars, laterVars>>

NextResolve ==
    \/ Resolve
    \/ \E name \in Names, ok \in BOOLEAN, pos \in 1..(Len(resolve_results) + 1) :
          AddResult(ScanResultOf(name, ok), pos)

SpecResolve == InitResolve /\ [][NextResolve]_vars

\* ------------------------------------------------------------- guard.py
\* The registries filled by aisafeguard/__init__.py.
INPUT_SCANNERS == {"prompt_injection", "jailbreak", "pii", "topic_ban"}
OUTPUT_SCANNERS == {"toxicity", "pii", "malicious_url", "relevance"}

\* The scanner names a configuration file uses in its two maps.
InputConfigNames == {"prompt_injection", "pii"}
OutputConfigNames == {"toxicity", "pii"}

\* config.py: ScannerConfig, reduced to the fields the Guard reads
ScannerConfig(name, enabled, action) ==
    [name |-> name, enabled |-> enabled, action |-> action]

\* A map of a GuardConfig: at most MaxConfigured entries with distinct names,
\* in insertion order.
ConfigMapsOf(names, actions, most) ==
    {m \in UNION {[1..n -> {ScannerConfig(name, e, a) :
                                name \in names, e \in BOOLEAN, a \in actions}] :
                    n \in 0..most} :
        \A i, j \in DOMAIN m : i # j => m[i].name # m[j].name}

ConfigMaps(names) == ConfigMapsOf(names, Action, MaxConfigured)

\* Mutant of build_pipeline: an enabled entry becomes a scanner whether or
\* not the registry holds its name.
build_pipeline_UnknownKept(m, registry, fa) ==
    LET kept == SelectSeq(m, LAMBDA e : e.enabled)
        on == {k \in DOMAIN m : m[k].enabled}
    IN  [scanners |-> [k \in DOMAIN kept |-> kept[k].name],
         fail_action |-> fa,
         scanner_actions |->
             [n \in {m[k].name : k \in on} |->
                 m[CHOOSE k \in on : m[k].name = n].action]]

\* _build_input_pipeline / _build_output_pipeline: the enabled entries whose
\* name is in the registry become the scanners, in the order of the map;
\* every enabled entry contributes its action.
build_pipeline(m, registry, fa) ==
    LET kept == SelectSeq(m, LAMBDA e : e.enabled /\ e.name \in registry)
        on == {k \in DOMAIN m : m[k].enabled}
    IN  [scanners |-> [k \in DOMAIN kept |-> kept[k].name],
         fail_action |-> fa,
         scanner_actions |->
             [n \in {m[k].name : k \in on} |->
                 m[CHOOSE k \in on : m[k].name = n].action]]

\* Guard.__init__, lines 150-153: set_scanner_action for every entry of a map
RECURSIVE ApplyOverrides(_, _)
ApplyOverrides(table, m) ==
    IF m = <<>> THEN table
    ELSE ApplyOverrides([n \in DOMAIN table \cup {Head(m).name} |->
                            IF n = Head(m).name THEN Head(m).action ELSE table[n]],
                        Tail(m))

\* A text handed to the Guard: what was written, and the redaction marks
\* applied to it since.
Text(base) == [base |-> base, marks |-> {}]
EmptyText == Text("")
Prompt == Text("prompt")
Response == Text("response")

\* Python's truth value of a str
Truthy(t) == t.base # "" \/ t.marks # {}

\* A context dict: the keys the Guard and its callers use, each present or not.
EmptyDict == [request |-> None, input_text |-> None]
DictTruthy(d) == d.request # None \/ d.input_text # None

\* What one scanner of a Guard pipeline answers: passed or not, and whether
\* it returns the text it was given with its redaction applied.
Verdicts == [passed : BOOLEAN, redacts : BOOLEAN]

GuardScanResult(name, t, v) ==
    [scanner   |-> name,
     tier      |-> FAST,
     passed    |-> v.passed,
     findings  |-> IF v.passed THEN <<>> ELSE <<[scanner |-> name]>>,
     sanitized |-> IF v.redacts THEN Some([t EXCEPT !.marks = @ \cup {name}]) ELSE None]

\* Pipeline.run for a pipeline built by the Guard: the registered scanner
\* classes are all of tier FAST, so the run is one gather of every scanner
\* on the text, the fold, and the return.
PipelineRun(p, t, c, vs) ==
    LET rs == [k \in DOMAIN p.scanners |->
                  GuardScanResult(p.scanners[k], ExecuteArgs(t, c).text, vs[k])]
        f == Fold(rs, <<>>, TRUE, t)
    IN  PipelineResult(f.passed, f.all_results,
                       resolve_action(f.all_results, p.scanner_actions, p.fail_action),
                       IF f.sanitized # t THEN Some(f.sanitized) ELSE None)

\* models.py: Report.passed
Report_passed_AbsentFails(r) ==
    LET input_ok == IF r.input_result # None THEN r.input_result[1].passed ELSE FALSE
        output_ok == IF r.output_result # None THEN r.output_result[1].passed ELSE FALSE
    IN  input_ok /\ output_ok

Report_passed(r) ==
    LET input_ok == IF r.input_result # None THEN r.input_result[1].passed ELSE TRUE
        output_ok == IF r.output_result # None THEN r.output_result[1].passed ELSE TRUE
    IN  input_ok /\ output_ok

\* Mutant of Blocks: a failed phase blocks whatever its action.
Blocks_AnyFailure(r) == ~r.passed

\* Mutant of Blocks: a failed phase never blocks.
Blocks_Never(r) == FALSE

\* Guard.run, lines 208-209 and 218-219
Blocks(r) == ~r.passed /\ r.action_taken = BLOCK

\* Guard(config): the pipelines and the policy table built from any
\* configuration, and a caller about to call run with any arguments.
InitGuard ==
    /\ PipelineIdle
    /\ ResolveIdle
    /\ LaterIdle
    /\ config_input \in ConfigMaps(InputConfigNames)
    /\ config_output \in ConfigMaps(OutputConfigNames)
    /\ settings_fail_action \in Action
    /\ input_pipeline = build_pipeline(config_input, INPUT_SCANNERS, settings_fail_action)
    /\ output_pipeline = build_pipeline(config_output, OUTPUT_SCANNERS, settings_fail_action)
    /\ default_action = settings_fail_action
    /\ action_overrides = ApplyOverrides(ApplyOverrides(<<>>, config_input), config_output)
    /\ policy_arg = None
    /\ decision = None
    /\ enforced = None
    /\ input_text \in {None, Some(EmptyText), Some(Prompt)}
    /\ output_text \in {None, Some(Response)}
    /\ caller_context \in {None, Some([request |-> Some("r1"), input_text |-> None])}
    /\ run_pc = "input"
    /\ report = NewReport
    /\ ctx = None
    /\ CallsIdle

\* Guard.run, lines 204-211: the input phase
GuardRunInput ==
    /\ run_pc = "input"
    /\ IF input_text = None
       THEN /\ run_pc' = "output"
            /\ UNCHANGED report
       ELSE \E vs \in [DOMAIN input_pipeline.scanners -> Verdicts] :
              LET r == PipelineRun(input_pipeline, input_text[1], caller_context, vs)
              IN  /\ report' = [report EXCEPT !.input_result = Some(r),
                                              !.blocked = IF Blocks(r) THEN TRUE ELSE @]
                  /\ run_pc' = IF Blocks(r) THEN "done" ELSE "output"
    /\ UNCHANGED <<guardConfig, input_text, output_text, caller_context, ctx>>
    /\ UNCHANGED <<pipelineVars, policyVars, resolveVars, callVars, laterVars>>

\* Guard.run, lines 213-222: the output phase
GuardRunOutput ==
    /\ run_pc = "output"
    /\ run_pc' = "done"
    /\ IF output_text = None
       THEN UNCHANGED <<report, ctx, caller_context>>
       ELSE LET aliased == caller_context # None /\ DictTruthy(caller_context[1])
                ctx0 == IF aliased THEN caller_context[1] ELSE EmptyDict
                ctx1 == IF input_text # None /\ Truthy(input_text[1])
                        THEN [ctx0 EXCEPT !.input_text = input_text]
                        ELSE ctx0
            IN  /\ ctx' = Some(ctx1)
                /\ caller_context' = IF aliased THEN Some(ctx1) ELSE caller_context
                /\ \E vs \in [DOMAIN output_pipeline.scanners -> Verdicts] :
                      LET r == PipelineRun(output_pipeline, output_text[1], Some(ctx1), vs)
                      IN  report' = [report EXCEPT !.output_result = Some(r),
                                                   !.blocked = IF Blocks(r) THEN TRUE ELSE @]
    /\ UNCHANGED <<guardConfig, input_text, output_text>>
    /\ UNCHANGED <<pipelineVars, policyVars, resolveVars, callVars, laterVars>>

NextGuard ==
    \/ GuardRunInput
    \/ GuardRunOutput

SpecGuard == InitGuard /\ [][NextGuard]_vars

\* ------------------------------------------- concurrent calls on a Guard
\* Texts with and without what a content scanner looks for, and the
\* responses that answer them.
Prompt2 == Text("prompt2")
Response2 == Text("response2")

\* A content scanner (pii, prompt_injection, toxicity, ...) is a function of
\* the text it is given: it finds its patterns in the text or does not.
Flagged(t) == t.base \in {"prompt2", "response2"}

\* relevance.py, _keyword_overlap(input_text, text) >= threshold: a response
\* shares the keywords of the prompt it answers; an input without words
\* scores 1.0.
Relevant(i, o) ==
    \/ i.base = ""
    \/ (i.base = "prompt" /\ o.base = "response")
    \/ (i.base = "prompt2" /\ o.base = "response2")

\* The verdict of the scanner called name on text t with context d (an
\* optional dict): relevance passes without an input_text in its context
\* and compares otherwise; a content scanner fails on, and redacts, a
\* flagged text.
ScanVerdict(name, t, d) ==
    IF name = "relevance"
    THEN [passed  |-> \/ d = None
                      \/ d[1].input_text = None
                      \/ Relevant(d[1].input_text[1], t),
          redacts |-> FALSE]
    ELSE [passed |-> ~Flagged(t), redacts |-> Flagged(t)]

DetVerdicts(p, t, d) == [k \in DOMAIN p.scanners |-> ScanVerdict(p.scanners[k], t, d)]

\* The calls a caller makes: run with both texts, scan_input, and scan_output
\* with or without the prompt in its context (as the adapters call it).
CallArgs ==
    {[kind |-> "run", input_text |-> Some(i), output_text |-> Some(o), context |-> c] :
        i \in {Prompt, Prompt2}, o \in {Response, Response2},
        c \in {None, Some([request |-> Some("r1"), input_text |-> None])}}
    \cup
    {[kind |-> "scan_input", input_text |-> Some(i), output_text |-> None, context |-> None] :
        i \in {Prompt, Prompt2}}
    \cup
    {[kind |-> "scan_output", input_text |-> None, output_text |-> Some(o), context |-> c] :
        o \in {Response, Response2},
        c \in {None, Some([request |-> None, input_text |-> Some(Prompt)])}}

\* Mutant of FreshDict: every call gets the same dict object.
FreshDict_Shared(c) == MaxCalls + 1

\* guard.py line 214, `{}`: a dict object of the call's own.  The dict a
\* caller passes to call c is object c.
FreshDict(c) == MaxCalls + c

\* One Guard with a content scanner on the input side (blocking or
\* redacting) and relevance on the output side (blocking or warning), and
\* MaxCalls independent calls about to be made on it, each with a context
\* dict of its own (if any).
InitConcurrent ==
    /\ PipelineIdle
    /\ ResolveIdle
    /\ LaterIdle
    /\ RunNotCalled
    /\ \E a \in {BLOCK, REDACT}, b \in {BLOCK, WARN} :
          /\ config_input = <<ScannerConfig("pii", TRUE, a)>>
          /\ config_output = <<ScannerConfig("relevance", TRUE, b)>>
    /\ settings_fail_action = BLOCK
    /\ input_pipeline = build_pipeline(config_input, INPUT_SCANNERS, settings_fail_action)
    /\ output_pipeline = build_pipeline(config_output, OUTPUT_SCANNERS, settings_fail_action)
    /\ default_action = settings_fail_action
    /\ action_overrides = ApplyOverrides(ApplyOverrides(<<>>, config_input), config_output)
    /\ policy_arg = None
    /\ decision = None
    /\ enforced = None
    /\ calls \in [1..MaxCalls -> CallArgs]
    /\ call_pc = [c \in 1..MaxCalls |-> "start"]
    /\ call_result = [c \in 1..MaxCalls |-> NewReport]
    /\ call_ctx = [c \in 1..MaxCalls |-> None]
    /\ observed = [c \in 1..MaxCalls |-> None]
    /\ dicts = [id \in 1..(2 * MaxCalls) |->
                  IF id <= MaxCalls /\ calls[id].context # None
                  THEN calls[id].context[1] ELSE EmptyDict]

\* The context object call c passes on, as an optional dict.
PassedContext(c) == IF calls[c].context = None THEN None ELSE Some(dicts[c])

\* Guard.run, lines 213-217, up to the gather of the output pipeline: the
\* context dict is chosen, input_text is stored in it, and the output
\* scanners are started with it.
EnterOutput(c) ==
    LET k == calls[c]
        aliased == k.context # None /\ DictTruthy(dicts[c])
        id == IF aliased THEN c ELSE FreshDict(c)
    IN  IF k.output_text = None
        THEN /\ call_pc' = [call_pc EXCEPT ![c] = "done"]
             /\ UNCHANGED <<call_ctx, dicts>>
        ELSE /\ call_pc' = [call_pc EXCEPT ![c] = "output_gather"]
             /\ call_ctx' = [call_ctx EXCEPT ![c] = Some(id)]
             /\ dicts' = [dicts EXCEPT ![id] =
                            IF k.input_text # None /\ Truthy(k.input_text[1])
                            THEN [@ EXCEPT !.input_text = k.input_text]
                            ELSE @]

\* The call starts: scan_input and run (lines 204-207) start the input
\* scanners, scan_output starts the output scanners with the caller's
\* context, run without input_text goes on to its output phase.
CallBegin(c) ==
    /\ call_pc[c] = "start"
    /\ IF calls[c].kind = "scan_output"
       THEN /\ call_pc' = [call_pc EXCEPT ![c] = "output_gather"]
            /\ call_ctx' = [call_ctx EXCEPT ![c] =
                              IF calls[c].context = None THEN None ELSE Some(c)]
            /\ UNCHANGED dicts
       ELSE IF calls[c].input_text # None
       THEN /\ call_pc' = [call_pc EXCEPT ![c] = "input_gather"]
            /\ UNCHANGED <<call_ctx, dicts>>
       ELSE EnterOutput(c)
    /\ UNCHANGED <<calls, call_result, observed>>
    /\ UNCHANGED <<guardConfig, runVars, pipelineVars, policyVars, resolveVars, laterVars>>

\* The input scanners of call c have run and its input pipeline returns;
\* run goes on with lines 208-217.
InputJoined(c) ==
    /\ call_pc[c] = "input_gather"
    /\ LET t == calls[c].input_text[1]
           r == PipelineRun(input_pipeline, t, PassedContext(c),
                            DetVerdicts(input_pipeline, t, PassedContext(c)))
           blocks == calls[c].kind = "run" /\ Blocks(r)
       IN  /\ call_result' = [call_result EXCEPT ![c] =
                                [@ EXCEPT !.input_result = Some(r),
                                          !.blocked = IF blocks THEN TRUE ELSE @]]
           /\ IF calls[c].kind = "scan_input" \/ blocks
              THEN /\ call_pc' = [call_pc EXCEPT ![c] = "done"]
                   /\ UNCHANGED <<call_ctx, dicts>>
              ELSE EnterOutput(c)
    /\ UNCHANGED <<calls, observed>>
    /\ UNCHANGED <<guardConfig, runVars, pipelineVars, policyVars, resolveVars, laterVars>>

\* The output scanners of call c run: they read the context dict they were
\* started with.
OutputScan(c) ==
    /\ call_pc[c] = "output_gather"
    /\ observed' = [observed EXCEPT ![c] =
                      Some(IF call_ctx[c] = None THEN None
                           ELSE Some(dicts[call_ctx[c][1]]))]
    /\ call_pc' = [call_pc EXCEPT ![c] = "output_join"]
    /\ UNCHANGED <<calls, call_result, call_ctx, dicts>>
    /\ UNCHANGED <<guardConfig, runVars, pipelineVars, policyVars, resolveVars, laterVars>>

\* The output pipeline of call c returns; run ends with lines 218-222.
OutputJoined(c) ==
    /\ call_pc[c] = "output_join"
    /\ LET t == calls[c].output_text[1]
           r == PipelineRun(output_pipeline, t, observed[c][1],
                            DetVerdicts(output_pipeline, t, observed[c][1]))
           blocks == calls[c].kind = "run" /\ Blocks(r)
       IN  call_result' = [call_result EXCEPT ![c] =
                             [@ EXCEPT !.output_result = Some(r),
                                       !.blocked = IF blocks THEN TRUE ELSE @]]
    /\ call_pc' = [call_pc EXCEPT ![c] = "done"]
    /\ UNCHANGED <<calls, call_ctx, observed, dicts>>
    /\ UNCHANGED <<guardConfig, runVars, pipelineVars, policyVars, resolveVars, laterVars>>

NextConcurrent ==
    \E c \in 1..MaxCalls :
        \/ CallBegin(c)
        \/ InputJoined(c)
        \/ OutputScan(c)
        \/ OutputJoined(c)

SpecConcurrent == InitConcurrent /\ [][NextConcurrent]_vars

\* ---------------------------------------------------- scanners/base.py
\* What a scan method may hand back: a ScanResult with any scanner name and
\* tier written into it (models.py: ScanResult, every field; score counts
\* tenths; duration_ms is the default until execute measures it).
ScanReturns ==
    [scanner     : {"", "pii"},
     tier        : Tier,
     passed      : BOOLEAN,
     score       : {0, 5, 10},
     findings    : {<<>>, <<[scanner |-> "pii"]>>},
     sanitized   : {None, Some("sanitized")},
     duration_ms : {0}]

\* Mutant of BaseScanner_execute: the result is handed on as scan wrote it.
BaseScanner_execute_AsScanned(self, r, elapsed_ms) ==
    [r EXCEPT !.duration_ms = elapsed_ms]

\* BaseScanner.execute, lines 27-30: the three assignments on the object
\* scan returned.
BaseScanner_execute(self, r, elapsed_ms) ==
    [r EXCEPT !.duration_ms = elapsed_ms,
              !.scanner = self.name,
              !.tier = self.tier]

\* A scanner of any registered name and any tier, whose scan method is about
\* to return any ScanResult.
InitExecute ==
    /\ PipelineIdle
    /\ PolicyIdle
    /\ ResolveIdle
    /\ GuardIdle
    /\ BuildIdle
    /\ AdapterIdle
    /\ ScannerIdle
    /\ PIIIdle
    /\ FinalIdle
    /\ self_scanner \in [name : {"pii", "relevance"}, tier : Tier]
    /\ scan_returned \in ScanReturns
    /\ execute_returned = None

\* BaseScanner.execute: scan is awaited, the elapsed time is measured, the
\* result is stamped and returned.
Execute ==
    /\ execute_returned = None
    /\ \E elapsed_ms \in {0, 3} :
          execute_returned' = Some(BaseScanner_execute(self_scanner, scan_returned, elapsed_ms))
    /\ UNCHANGED <<self_scanner, scan_returned>>
    /\ UNCHANGED <<pipelineVars, policyVars, resolveVars, guardVars, buildVars, adapterVars,
                 scannerVars, piiVars, finalVars>>

NextExecute ==
    \/ Execute

SpecExecute == InitExecute /\ [][NextExecute]_vars

\* ------------------------------------- guard.py: construction from config
\* The scanner names of the two maps of a configuration file that also
\* names scanners the registry of the direction does not hold.
BuildInputNames == {"prompt_injection", "pii", "toxicity"}
BuildOutputNames == {"toxicity", "pii", "prompt_injection"}

\* Guard(config) for a configuration with up to MaxBuilt entries per map,
\* enabled or not, registered or not; no scan has been requested yet.
InitBuild ==
    /\ PipelineIdle
    /\ ResolveIdle
    /\ ExecuteIdle
    /\ AdapterIdle
    /\ ScannerIdle
    /\ PIIIdle
    /\ FinalIdle
    /\ RunNotCalled
    /\ CallsIdle
    /\ config_input \in ConfigMapsOf(BuildInputNames, {BLOCK}, MaxBuilt)
    /\ config_output \in ConfigMapsOf(BuildOutputNames, {BLOCK}, MaxBuilt)
    /\ settings_fail_action = BLOCK
    /\ input_pipeline = build_pipeline(config_input, INPUT_SCANNERS, settings_fail_action)
    /\ output_pipeline = build_pipeline(config_output, OUTPUT_SCANNERS, settings_fail_action)
    /\ default_action = settings_fail_action
    /\ action_overrides = ApplyOverrides(ApplyOverrides(<<>>, config_input), config_output)
    /\ policy_arg = None
    /\ decision = None
    /\ enforced = None
    /\ scan_call = None

\* Guard.scan_input, lines 167-180
scan_input ==
    /\ \E vs \in [DOMAIN input_pipeline.scanners -> Verdicts] :
          scan_call' = Some([direction |-> "input",
                             result |-> PipelineRun(input_pipeline, Prompt, None, vs)])
    /\ UNCHANGED <<pipelineVars, policyVars, resolveVars, guardVars, executeVars, adapterVars,
                 scannerVars, piiVars, finalVars>>

\* Guard.scan_output, lines 182-195
scan_output ==
    /\ \E vs \in [DOMAIN output_pipeline.scanners -> Verdicts] :
          scan_call' = Some([direction |-> "output",
                             result |-> PipelineRun(output_pipeline, Response, None, vs)])
    /\ UNCHANGED <<pipelineVars, policyVars, resolveVars, guardVars, executeVars, adapterVars,
                 scannerVars, piiVars, finalVars>>

NextBuild ==
    \/ scan_input
    \/ scan_output

SpecBuild == InitBuild /\ [][NextBuild]_vars

\* ------------------- decorator.py, integrations/__init__.py, proxy/server.py
\* The attributes a Guard object answers to (guard.py, class Guard): the
\* four set by __init__, the property config, and the methods.
GuardAttributes ==
    {"_config", "_input_pipeline", "_output_pipeline", "_policy", "config",
     "add_input_scanner", "add_output_scanner", "scan_input", "scan_output", "run",
     "__aenter__", "__aexit__"}

\* Python's error for the lookup of an attribute an object does not have.
AttributeError(object, attribute) == [object |-> object, attribute |-> attribute]

\* fastapi.HTTPException(status_code, detail)
HTTPException(status_code, detail) == [status_code |-> status_code, detail |-> detail]

\* The expression `guard.policy.enforce(r)` every adapter evaluates on a
\* failed scan: the attribute lookup on the Guard comes before the call.
guard_policy_enforce(r) ==
    IF "policy" \in GuardAttributes
    THEN enforce(r, action_overrides, default_action)
    ELSE [kind |-> "raise", value |-> None,
          raised |-> Some(AttributeError("Guard", "policy")), logged |-> <<>>]

IsPolicyViolation(e) == DOMAIN e = {"result", "message"}

\* How a guarded call ends: it returns a value or raises an error.
Returns(v) == [kind |-> "return", value |-> Some(v), error |-> None]
Raises(e) == [kind |-> "raise", value |-> None, error |-> Some(e)]

\* What the on_block callback of the decorator returns for a result.
on_block(r) == [on_block |-> r]

\* The adapters: the decorator with or without an on_block callback and with
\* or without scanner names for each direction, the two client wrappers, and
\* the proxy with or without an upstream API key.
Adapters ==
    {[kind |-> "decorator", on_block |-> b, input |-> i, output |-> o, api_key |-> TRUE] :
        b \in BOOLEAN, i \in BOOLEAN, o \in BOOLEAN}
    \cup {[kind |-> k, on_block |-> FALSE, input |-> TRUE, output |-> TRUE, api_key |-> TRUE] :
             k \in {"openai", "anthropic"}}
    \cup {[kind |-> "proxy", on_block |-> FALSE, input |-> TRUE, output |-> TRUE, api_key |-> a] :
             a \in BOOLEAN}

\* _extract_prompt / _extract_openai_prompt / _extract_anthropic_prompt /
\* _extract_user_prompt: the decorator answers None when no argument is a
\* str, the others answer "" when no user message holds text.
extract_prompt(kind, p) ==
    IF kind = "decorator" THEN p
    ELSE IF p = None THEN Some(EmptyText) ELSE p

\* The condition under which the input is scanned.
ScansInput(a, prompt) ==
    IF a.kind = "decorator" THEN a.input /\ prompt # None
    ELSE Truthy(prompt[1])

\* The error an adapter ends with when enforce raised e for the failed
\* result r of the named direction, or the value it returns instead.
Blocked(a, r, e, direction) ==
    IF ~IsPolicyViolation(e) THEN Raises(e)
    ELSE IF a.kind = "decorator"
         THEN IF a.on_block THEN Returns(on_block(r))
              ELSE Raises([result |-> r,
                           message |-> <<direction, failed_scanners(r.results)>>])
    ELSE IF a.kind = "proxy"
         THEN Raises(HTTPException(400, [error |-> direction,
                                         failed_scanners |-> failed_scanners(r.results),
                                         findings |-> findings(r.results)]))
    ELSE Raises(e)

\* The first part of a guarded call, up to the invocation of the wrapped
\* function: the input scan (verdicts vs), enforce on a failed result, and
\* the substitution of the sanitized prompt.  `sent` is the prompt the
\* wrapped function is to be invoked with.
InputPhase(a, p, vs) ==
    LET prompt == extract_prompt(a.kind, p)
        unscanned == [input_result |-> None, outcome |-> None,
                      sent |-> p, prompt_text |-> prompt]
    IN  IF ~ScansInput(a, prompt) THEN unscanned
        ELSE LET r == PipelineRun(input_pipeline, prompt[1], None, vs)
                 e == guard_policy_enforce(r)
                 scanned == [unscanned EXCEPT !.input_result = Some(r)]
             IN  IF r.passed THEN scanned
                 ELSE IF e.kind = "raise"
                 THEN [scanned EXCEPT !.outcome = Some(Blocked(a, r, e.raised[1], "blocked_input"))]
                 ELSE IF a.kind \in {"decorator", "proxy"}
                         /\ e.value # None /\ Truthy(e.value[1])
                 THEN [scanned EXCEPT !.sent = e.value, !.prompt_text = e.value]
                 ELSE scanned

\* The responses a wrapped function may return, as the list of their text
\* blocks: none (no text, or not a str), one, or for an Anthropic message
\* several.
ModelResponses(kind) ==
    IF kind = "anthropic"
    THEN {<<>>, <<Response>>, <<Text("first"), Text("second")>>}
    ELSE IF kind = "decorator"
    THEN {<<>>, <<EmptyText>>, <<Response>>}
    ELSE {<<>>, <<Response>>}

\* _extract_openai_response_text / _extract_anthropic_response_text /
\* _extract_assistant_text: the text of the first choice, or the text
\* blocks joined by a blank.
response_text(resp) ==
    IF resp = <<>> THEN EmptyText
    ELSE IF Len(resp) = 1 THEN resp[1]
    ELSE Text("first second")

\* The condition under which the output is scanned.
ScansOutput(a, resp) ==
    IF a.kind = "decorator" THEN a.output /\ resp # <<>>
    ELSE Truthy(response_text(resp))

\* The context handed to scan_output.
OutputContext(a, prompt) ==
    IF a.kind = "proxy" \/ (prompt # None /\ Truthy(prompt[1]))
    THEN Some([request |-> None, input_text |-> prompt])
    ELSE None

\* _set_openai_response_text / _set_anthropic_response_text /
\* _replace_assistant_text, and `return sanitized` of the decorator: the
\* text of the first choice or of the first block is replaced.
set_response_text(resp, san) == [resp EXCEPT ![1] = san]

\* An adapter of any kind around a Guard built from any configuration, a
\* rate limiter with any number of recent requests of the user, and a caller
\* about to make one guarded call.
InitAdapter ==
    /\ PipelineIdle
    /\ ResolveIdle
    /\ ExecuteIdle
    /\ BuildIdle
    /\ ScannerIdle
    /\ PIIIdle
    /\ FinalIdle
    /\ RunNotCalled
    /\ CallsIdle
    /\ config_input \in ConfigMaps(InputConfigNames)
    /\ config_output \in ConfigMaps(OutputConfigNames)
    /\ settings_fail_action = BLOCK
    /\ input_pipeline = build_pipeline(config_input, INPUT_SCANNERS, settings_fail_action)
    /\ output_pipeline = build_pipeline(config_output, OUTPUT_SCANNERS, settings_fail_action)
    /\ default_action = settings_fail_action
    /\ action_overrides = ApplyOverrides(ApplyOverrides(<<>>, config_input), config_output)
    /\ policy_arg = None
    /\ decision = None
    /\ enforced = None
    /\ adapter \in Adapters
    /\ limiter_hits \in IF adapter.kind = "proxy" THEN 0..MaxRequests ELSE {0}
    /\ caller_prompt \in {None, Some(EmptyText), Some(Prompt)}
    /\ adapter_pc = "start"
    /\ prompt_text = None
    /\ input_result = None
    /\ model_call = None
    /\ model_response = None
    /\ output_context = None
    /\ output_result = None
    /\ outcome = None

\* RateLimiter.allow, lines 23-31, for a limiter of MaxRequests requests per
\* window of which `expired` time stamps have left the window.
allow(hits, expired) ==
    LET queue == hits - expired
    IN  IF queue >= MaxRequests THEN [allowed |-> FALSE, hits |-> queue]
        ELSE [allowed |-> TRUE, hits |-> queue + 1]

\* decorator.py 27-52, integrations 19-25 and 72-78, server.py 83-128: the
\* guarded call up to the invocation of the wrapped function.
AdapterCall ==
    /\ adapter_pc = "start"
    /\ \E expired \in 0..limiter_hits, vs \in [DOMAIN input_pipeline.scanners -> Verdicts] :
          LET limit == IF adapter.kind = "proxy" THEN allow(limiter_hits, expired)
                       ELSE [allowed |-> TRUE, hits |-> limiter_hits]
              ph == InputPhase(adapter, caller_prompt, vs)
          IN  /\ limiter_hits' = limit.hits
              /\ IF ~limit.allowed
                 THEN /\ outcome' = Some(Raises(HTTPException(429, [error |-> "rate_limit_exceeded"])))
                      /\ adapter_pc' = "done"
                      /\ UNCHANGED <<prompt_text, input_result, model_call>>
                 ELSE /\ prompt_text' = ph.prompt_text
                      /\ input_result' = ph.input_result
                      /\ IF ph.outcome # None
                         THEN /\ outcome' = ph.outcome
                              /\ adapter_pc' = "done"
                              /\ UNCHANGED model_call
                         ELSE IF ~adapter.api_key
                         THEN /\ outcome' = Some(Raises(HTTPException(500,
                                                 [error |-> "missing_upstream_api_key"])))
                              /\ adapter_pc' = "done"
                              /\ UNCHANGED model_call
                         ELSE /\ model_call' = Some([prompt |-> ph.sent])
                              /\ adapter_pc' = "model"
                              /\ UNCHANGED outcome
    /\ UNCHANGED <<adapter, caller_prompt, model_response, output_context, output_result>>
    /\ UNCHANGED <<pipelineVars, policyVars, resolveVars, guardVars, executeVars, buildVars,
                 scannerVars, piiVars, finalVars>>

\* decorator.py 52-58, integrations 25-34 and 78-87, server.py 128-144: the
\* wrapped function returns; the text of its response is handed to
\* scan_output, or the response is returned as it is.
ModelReturns ==
    /\ adapter_pc = "model"
    /\ \E resp \in ModelResponses(adapter.kind) :
          /\ model_response' = Some(resp)
          /\ IF ScansOutput(adapter, resp)
             THEN /\ output_context' = OutputContext(adapter, prompt_text)
                  /\ adapter_pc' = "output"
                  /\ UNCHANGED outcome
             ELSE /\ outcome' = Some(Returns(resp))
                  /\ adapter_pc' = "done"
                  /\ UNCHANGED output_context
    /\ UNCHANGED <<adapter, limiter_hits, caller_prompt, prompt_text, input_result,
                   model_call, output_result>>
    /\ UNCHANGED <<pipelineVars, policyVars, resolveVars, guardVars, executeVars, buildVars,
                 scannerVars, piiVars, finalVars>>

\* server.py 137-138: the upstream answers with an error status.
UpstreamFails ==
    /\ adapter_pc = "model"
    /\ adapter.kind = "proxy"
    /\ outcome' = Some(Raises(HTTPException(502, [error |-> "upstream"])))
    /\ adapter_pc' = "done"
    /\ UNCHANGED <<adapter, limiter_hits, caller_prompt, prompt_text, input_result,
                   model_call, model_response, output_context, output_result>>
    /\ UNCHANGED <<pipelineVars, policyVars, resolveVars, guardVars, executeVars, buildVars,
                 scannerVars, piiVars, finalVars>>

\* decorator.py 59-72, integrations 35-40 and 88-93, server.py 145-165:
\* scan_output has answered; enforce on a failed result, the substitution
\* of the sanitized text, and the return.
AdapterOutput ==
    /\ adapter_pc = "output"
    /\ \E vs \in [DOMAIN output_pipeline.scanners -> Verdicts] :
          LET resp == model_response[1]
              r == PipelineRun(output_pipeline, response_text(resp), output_context, vs)
              e == guard_policy_enforce(r)
          IN  /\ output_result' = Some(r)
              /\ outcome' =
                    IF r.passed THEN Some(Returns(resp))
                    ELSE IF e.kind = "raise"
                    THEN Some(Blocked(adapter, r, e.raised[1], "blocked_output"))
                    ELSE IF e.value # None /\ Truthy(e.value[1])
                    THEN Some(Returns(set_response_text(resp, e.value[1])))
                    ELSE Some(Returns(resp))
    /\ adapter_pc' = "done"
    /\ UNCHANGED <<adapter, limiter_hits, caller_prompt, prompt_text, input_result,
                   model_call, model_response, output_context>>
    /\ UNCHANGED <<pipelineVars, policyVars, resolveVars, guardVars, executeVars, buildVars,
                 scannerVars, piiVars, finalVars>>

\* Python's exception raised by the scan method of a scanner while the
\* pipeline of the named direction runs.
ScannerError(name, direction) == [scanner |-> name, direction |-> direction]

\* Mutant of InputScanRaises: the error of the scanner is swallowed and the
\* wrapped function is invoked with the caller's prompt.
InputScanRaises_FailOpen ==
    /\ adapter_pc = "start"
    /\ ScansInput(adapter, extract_prompt(adapter.kind, caller_prompt))
    /\ adapter.api_key
    /\ \E expired \in 0..limiter_hits, k \in DOMAIN input_pipeline.scanners :
          LET limit == IF adapter.kind = "proxy" THEN allow(limiter_hits, expired)
                       ELSE [allowed |-> TRUE, hits |-> limiter_hits]
          IN  /\ limit.allowed
              /\ limiter_hits' = limit.hits
              /\ scan_error' = Some(ScannerError(input_pipeline.scanners[k], "input"))
    /\ prompt_text' = extract_prompt(adapter.kind, caller_prompt)
    /\ model_call' = Some([prompt |-> caller_prompt])
    /\ adapter_pc' = "model"
    /\ UNCHANGED <<adapter, caller_prompt, input_result, model_response, output_context,
                   output_result, outcome>>
    /\ UNCHANGED <<pipelineVars, policyVars, resolveVars, guardVars, executeVars, buildVars,
                 scannerVars, piiVars, limiterVars, decoratorVars>>

\* The scan method of a scanner of the input pipeline raises.  The error
\* leaves `await self.scan(...)` in execute (base.py 25), asyncio.gather
\* (pipeline.py 65-67, no return_exceptions), Pipeline.run and
\* Guard.scan_input (guard.py 173), none of which catches it, and then the
\* adapter, whose only handler is `except PolicyViolation` around enforce
\* (decorator.py 32, integrations 21 and 74, server.py 99).
InputScanRaises ==
    /\ adapter_pc = "start"
    /\ ScansInput(adapter, extract_prompt(adapter.kind, caller_prompt))
    /\ \E expired \in 0..limiter_hits, k \in DOMAIN input_pipeline.scanners :
          LET limit == IF adapter.kind = "proxy" THEN allow(limiter_hits, expired)
                       ELSE [allowed |-> TRUE, hits |-> limiter_hits]
          IN  /\ limit.allowed
              /\ limiter_hits' = limit.hits
              /\ scan_error' = Some(ScannerError(input_pipeline.scanners[k], "input"))
              /\ outcome' = Some(Raises(ScannerError(input_pipeline.scanners[k], "input")))
    /\ prompt_text' = extract_prompt(adapter.kind, caller_prompt)
    /\ adapter_pc' = "done"
    /\ UNCHANGED <<adapter, caller_prompt, input_result, model_call, model_response,
                   output_context, output_result>>
    /\ UNCHANGED <<pipelineVars, policyVars, resolveVars, guardVars, executeVars, buildVars,
                 scannerVars, piiVars, limiterVars, decoratorVars>>

\* The scan method of a scanner of the output pipeline raises: the error
\* leaves Guard.scan_output (guard.py 188) and the adapter in the same way
\* (decorator.py 55, integrations 31 and 84, server.py 144).
OutputScanRaises ==
    /\ adapter_pc = "output"
    /\ \E k \in DOMAIN output_pipeline.scanners :
          /\ scan_error' = Some(ScannerError(output_pipeline.scanners[k], "output"))
          /\ outcome' = Some(Raises(ScannerError(output_pipeline.scanners[k], "output")))
    /\ adapter_pc' = "done"
    /\ UNCHANGED <<adapter, limiter_hits, caller_prompt, prompt_text, input_result,
                   model_call, model_response, output_context, output_result>>
    /\ UNCHANGED <<pipelineVars, policyVars, resolveVars, guardVars, executeVars, buildVars,
                 scannerVars, piiVars, limiterVars, decoratorVars>>

NextAdapter ==
    \/ InputScanRaises
    \/ OutputScanRaises
    \/ AdapterCall
    \/ ModelReturns
    \/ UpstreamFails
    \/ AdapterOutput

SpecAdapter == InitAdapter /\ [][NextAdapter]_vars

\* --------------------------------------- scanners/*.py: score and passed
\* A score or a threshold is a float between 0.0 and 1.0.  It is counted in
\* thirtieths: the float written k/10 is 3 * k, and the float next below or
\* next above it, which a rounded subtraction may yield, is 3 * k - 1 or
\* 3 * k + 1.
FloatOf(tenths, rounding) == 3 * tenths + rounding
Floats == 0..FloatOf(10, 0)

\* The rounding of 1.0 - n * w in IEEE 754 double arithmetic, for a weight
\* w counted in tenths: 1.0 - 3 * 0.2 is 0.3999999999999999, 1.0 - 4 * 0.2 and
\* 1.0 - 2 * 0.4 are 0.19999999999999996, 1.0 - 3 * 0.3 is 0.10000000000000009.
ProductRounding(w, n) ==
    IF <<w, n>> \in {<<2, 3>>, <<2, 4>>, <<4, 2>>} THEN -1
    ELSE IF <<w, n>> = <<3, 3>> THEN 1
    ELSE 0

\* max(0.0, 1.0 - n * w)
score_of_count(w, n) ==
    IF 10 - n * w <= 0 THEN 0 ELSE FloatOf(10 - n * w, ProductRounding(w, n))

\* jailbreak.py, line 125, in tenths
severity_weights == [critical |-> 5, high |-> 3, medium |-> 2, low |-> 1]

RECURSIVE total_weight(_)
total_weight(severities) ==
    IF severities = <<>> THEN 0
    ELSE severity_weights[Head(severities)] + total_weight(Tail(severities))

\* The rounding of 1.0 - sum(weights) in IEEE 754 double arithmetic, the
\* weights being added in the order of the findings.
SumRounding(severities) ==
    IF severities \in {<<"critical", "high">>, <<"high", "critical">>,
                       <<"high", "high", "medium">>, <<"high", "medium", "high">>,
                       <<"medium", "high", "high">>, <<"medium", "medium", "critical">>,
                       <<"medium", "medium", "medium">>}
    THEN -1
    ELSE IF severities \in {<<"critical", "medium">>, <<"medium", "critical">>,
                            <<"critical", "medium", "medium">>, <<"high", "high", "high">>,
                            <<"high", "medium", "medium">>, <<"medium", "critical", "medium">>,
                            <<"medium", "high", "medium">>, <<"medium", "medium", "high">>}
    THEN 1
    ELSE 0

\* jailbreak.py, lines 121-129
score_of_weights(severities) ==
    IF 10 - total_weight(severities) <= 0 THEN 0
    ELSE FloatOf(10 - total_weight(severities), SumRounding(severities))

\* Mutant of passed_by_threshold: a score equal to the threshold fails.
passed_by_threshold_Strict(score, threshold) == score > threshold

\* `passed = score >= self.threshold`
passed_by_threshold(score, threshold) == score >= threshold

\* The built-in scanner classes, by their name attribute (the input and the
\* output PII scanner share name and scan method).
BuiltIn ==
    {"prompt_injection", "jailbreak", "toxicity", "topic_ban", "malicious_url", "pii",
     "relevance"}

\* What the patterns of a scanner find in a text: for each match, in the
\* order in which it is found, the pattern (subcategory, topic, URL check,
\* entity type) it belongs to, or for the jailbreak scanner its severity.
\* The relevance scanner matches nothing: it is handed a context or not and
\* computes the keyword overlap of the two texts.
Detections(name) ==
    IF name = "relevance"
    THEN [context : BOOLEAN, overlap : Floats]
    ELSE LET keys == IF name = "jailbreak" THEN {"critical", "high", "medium"}
                     ELSE {"first", "second"}
         IN  UNION {[1..n -> keys] : n \in 0..MaxFindings}

\* topic_ban.py, lines 84-91: the first finding of every topic
RECURSIVE unique_findings(_)
unique_findings(hits) ==
    IF hits = <<>> THEN <<>>
    ELSE LET front == unique_findings(SubSeq(hits, 1, Len(hits) - 1))
             last == hits[Len(hits)]
         IN  IF last \in Range(front) THEN front ELSE Append(front, last)

FindingsOf(name, hits) == [k \in DOMAIN hits |-> [scanner |-> name, pattern |-> hits[k]]]

\* The scan method of the built-in scanner `name` constructed with
\* `threshold`, on a text in which its patterns find d.
scanner_scan(name, threshold, d) ==
    IF name \in {"prompt_injection", "toxicity"}
    THEN LET score == score_of_count(3, Cardinality(Range(d)))
         IN  [scanner |-> name, passed |-> passed_by_threshold(score, threshold),
              score |-> score, findings |-> FindingsOf(name, d), sanitized |-> None]
    ELSE IF name = "jailbreak"
    THEN LET score == score_of_weights(d)
         IN  [scanner |-> name, passed |-> passed_by_threshold(score, threshold),
              score |-> score, findings |-> FindingsOf(name, d), sanitized |-> None]
    ELSE IF name = "topic_ban"
    THEN LET unique == unique_findings(d)
         IN  [scanner |-> name, passed |-> Len(unique) = 0,
              score |-> score_of_count(4, Len(unique)),
              findings |-> FindingsOf(name, unique), sanitized |-> None]
    ELSE IF name = "malicious_url"
    THEN [scanner |-> name, passed |-> Len(d) = 0,
          score |-> score_of_count(3, Len(d)),
          findings |-> FindingsOf(name, d), sanitized |-> None]
    ELSE IF name = "pii"
    THEN [scanner |-> name, passed |-> Len(d) = 0,
          score |-> score_of_count(2, Len(d)),
          findings |-> FindingsOf(name, d),
          sanitized |-> IF Len(d) # 0 THEN Some("redacted") ELSE None]
    ELSE IF ~d.context
    THEN [scanner |-> name, passed |-> TRUE, score |-> FloatOf(10, 0),
          findings |-> <<>>, sanitized |-> None]
    ELSE LET ok == passed_by_threshold(d.overlap, threshold)
         IN  [scanner |-> name, passed |-> ok, score |-> d.overlap,
              findings |-> IF ok THEN <<>>
                           ELSE <<[scanner |-> name, pattern |-> "relevance_score"]>>,
              sanitized |-> None]

\* A built-in scanner constructed with any threshold, about to scan a text
\* in which its patterns find anything.
InitScanner ==
    /\ PipelineIdle
    /\ PolicyIdle
    /\ ResolveIdle
    /\ GuardIdle
    /\ ExecuteIdle
    /\ BuildIdle
    /\ AdapterIdle
    /\ PIIIdle
    /\ FinalIdle
    /\ built_in \in [name : BuiltIn, threshold : Floats]
    /\ detected \in Detections(built_in.name)
    /\ scan_result = None

\* a call of the scanner's scan method
Scan ==
    /\ scan_result = None
    /\ scan_result' = Some(scanner_scan(built_in.name, built_in.threshold, detected))
    /\ UNCHANGED <<built_in, detected>>
    /\ UNCHANGED <<pipelineVars, policyVars, resolveVars, guardVars, executeVars, buildVars,
                   adapterVars, piiVars, finalVars>>

NextScanner ==
    \/ Scan

SpecScanner == InitScanner /\ [][NextScanner]_vars

\* ------------------------------------------- scanners/pii.py: redaction
\* A text is a sequence of characters.  A character of the scanned text is
\* [entity |-> "", index |-> its 1-based position in that text]; the k-th
\* character of the marker "[<entity_type>_REDACTED]" is
\* [entity |-> entity_type, index |-> k].
TextOf(length) == [k \in 1..length |-> [entity |-> "", index |-> k]]

\* len("[EMAIL_REDACTED]"), the same as len("[PHONE_REDACTED]")
MarkerLength == 16

\* f"[{entity_type}_REDACTED]"
redaction_marker(entity_type) ==
    [k \in 1..MarkerLength |-> [entity |-> entity_type, index |-> k]]

min(a, b) == IF a <= b THEN a ELSE b

\* result[: stop] and result[start :] for non-negative indices: a Python
\* slice clamps an index beyond the end of the sequence to the end.
slice_to(res, stop) == SubSeq(res, 1, min(stop, Len(res)))
slice_from(res, start) == SubSeq(res, min(start, Len(res)) + 1, Len(res))

\* The entity types whose patterns are followed, in the order of PII_PATTERNS.
EntityOrder == <<"EMAIL", "PHONE">>
EntityRank(entity_type) == CHOOSE k \in DOMAIN EntityOrder : EntityOrder[k] = entity_type

\* The spans [start, end) of a text of the given length (0-based, end
\* exclusive, as re.Match.start() and re.Match.end()).
SpansOf(length) ==
    {sp \in [entity_type : Range(EntityOrder), start : 0..length, end : 0..length] :
        sp.start < sp.end}

\* What _detect_pii can return for a text of the given length: the matches
\* of one pattern after the other in the order of PII_PATTERNS, those of one
\* pattern from left to right and not overlapping (re.finditer); the
\* matches of different patterns lie anywhere.
DetectedPII(length) ==
    {fs \in UNION {[1..n -> SpansOf(length)] : n \in 0..MaxFindings} :
        \A i, j \in DOMAIN fs :
            i < j =>
                \/ EntityRank(fs[i].entity_type) < EntityRank(fs[j].entity_type)
                \/ /\ fs[i].entity_type = fs[j].entity_type
                   /\ fs[i].end <= fs[j].start}

\* `sorted(findings, key=lambda f: f.start or 0, reverse=True)`: a stable
\* sort, findings of equal start keep their order.
RECURSIVE sorted_reverse(_)
sorted_reverse(fs) ==
    IF fs = <<>> THEN <<>>
    ELSE LET front == sorted_reverse(SubSeq(fs, 1, Len(fs) - 1))
             last == fs[Len(fs)]
             before == SelectSeq(front, LAMBDA f : f.start >= last.start)
             after == SelectSeq(front, LAMBDA f : f.start < last.start)
         IN  before \o <<last>> \o after

\* the loop of _redact_pii: the indices of every finding are those of the
\* scanned text, applied to the result of the replacements made so far
RECURSIVE redact_loop(_, _)
redact_loop(res, sorted_findings) ==
    IF sorted_findings = <<>> THEN res
    ELSE redact_loop(
            slice_to(res, Head(sorted_findings).start)
                \o redaction_marker(Head(sorted_findings).entity_type)
                \o slice_from(res, Head(sorted_findings).end),
            Tail(sorted_findings))

redact_pii(txt, fs) == redact_loop(txt, sorted_reverse(fs))

\* PIIInputScanner.scan and PIIOutputScanner.scan, on a text in which
\* _detect_pii finds `findings`
pii_scan(txt, fs) ==
    [scanner |-> "pii",
     passed |-> Len(fs) = 0,
     score |-> score_of_count(2, Len(fs)),
     findings |-> fs,
     sanitized |-> IF fs # <<>> THEN Some(redact_pii(txt, fs)) ELSE None]

\* A PII scanner about to scan any text, in which any findings are detected.
InitPII ==
    /\ PipelineIdle
    /\ PolicyIdle
    /\ ResolveIdle
    /\ GuardIdle
    /\ ExecuteIdle
    /\ BuildIdle
    /\ AdapterIdle
    /\ ScannerIdle
    /\ FinalIdle
    /\ \E length \in 0..MaxText :
        /\ pii_text = TextOf(length)
        /\ pii_findings \in DetectedPII(length)
    /\ pii_result = None

\* a call of the PII scanner's scan method
PIIScan ==
    /\ pii_result = None
    /\ pii_result' = Some(pii_scan(pii_text, pii_findings))
    /\ UNCHANGED <<pii_text, pii_findings>>
    /\ UNCHANGED <<pipelineVars, policyVars, resolveVars, guardVars, executeVars, buildVars,
                   adapterVars, scannerVars, finalVars>>

NextPII ==
    \/ PIIScan

SpecPII == InitPII /\ [][NextPII]_vars

\* ---------------------------------------- proxy/server.py: RateLimiter
\* Mutant of popleft_expired: a time stamp exactly window_seconds old has
\* left the window.
RECURSIVE popleft_expired_AtWindow(_, _, _)
popleft_expired_AtWindow(queue, now, window_seconds) ==
    IF queue # <<>> /\ now - Head(queue) >= window_seconds
    THEN popleft_expired_AtWindow(Tail(queue), now, window_seconds)
    ELSE queue

\* lines 26-27: `while queue and now - queue[0] > self.window_seconds:
\* queue.popleft()`
RECURSIVE popleft_expired(_, _, _)
popleft_expired(queue, now, window_seconds) ==
    IF queue # <<>> /\ now - Head(queue) > window_seconds
    THEN popleft_expired(Tail(queue), now, window_seconds)
    ELSE queue

\* Mutant of RateLimiter_allow: a denied call is queued as well.
RateLimiter_allow_QueuesDenied(self, queue, now) ==
    LET kept == popleft_expired(queue, now, self.window_seconds)
    IN  IF Len(kept) >= self.max_requests
        THEN [returned |-> FALSE, queue |-> Append(kept, now)]
        ELSE [returned |-> TRUE, queue |-> Append(kept, now)]

\* RateLimiter.allow, lines 23-31, on the queue of its key: what it returns
\* and what it leaves in the queue
RateLimiter_allow(self, queue, now) ==
    LET kept == popleft_expired(queue, now, self.window_seconds)
    IN  IF Len(kept) >= self.max_requests
        THEN [returned |-> FALSE, queue |-> kept]
        ELSE [returned |-> TRUE, queue |-> Append(kept, now)]

\* RateLimiter(max_requests, window_seconds), lines 18-21: no key has a hit
InitLimiter ==
    /\ PipelineIdle
    /\ PolicyIdle
    /\ ResolveIdle
    /\ GuardIdle
    /\ ExecuteIdle
    /\ BuildIdle
    /\ AdapterIdle
    /\ ScannerIdle
    /\ PIIIdle
    /\ DecoratorIdle
    /\ ErrorIdle
    /\ self_limiter \in {Some(l) : l \in [max_requests : 0..MaxQuota,
                                          window_seconds : 0..MaxWindow]}
    /\ time_now = 0
    /\ self_hits = [k \in Keys |-> <<>>]
    /\ granted = [k \in Keys |-> <<>>]
    /\ last_allow = None

\* time passes between two calls: the clock never goes back
TimePasses ==
    /\ time_now < MaxClock
    /\ time_now' = time_now + 1
    /\ UNCHANGED <<self_limiter, self_hits, granted, last_allow>>
    /\ UNCHANGED <<pipelineVars, policyVars, resolveVars, guardVars, executeVars, buildVars,
                   adapterVars, scannerVars, piiVars, decoratorVars, errorVars>>

\* a call of allow(key)
Allow(key) ==
    /\ LET a == RateLimiter_allow(self_limiter[1], self_hits[key], time_now)
       IN  /\ self_hits' = [self_hits EXCEPT ![key] = a.queue]
           /\ granted' = IF a.returned
                         THEN [granted EXCEPT ![key] = Append(@, time_now)]
                         ELSE granted
           /\ last_allow' = Some([key |-> key, now |-> time_now, returned |-> a.returned])
    /\ UNCHANGED <<self_limiter, time_now>>
    /\ UNCHANGED <<pipelineVars, policyVars, resolveVars, guardVars, executeVars, buildVars,
                   adapterVars, scannerVars, piiVars, decoratorVars, errorVars>>

NextLimiter ==
    \/ TimePasses
    \/ \E key \in Keys : Allow(key)

SpecLimiter == InitLimiter /\ [][NextLimiter]_vars

\* ------------------------------------------- decorator.py: guard(...)
\* The lists of scanner names a decorator is created with: none given, or
\* any names of the registry.
NameLists(names) == {None} \cup {Some(S) : S \in SUBSET names}

\* _select_scanners, lines 119-131, for one direction: without a list the
\* map is kept, with a list the entries named in it are kept.
select_scanners(m, names) ==
    IF names # None THEN SelectSeq(m, LAMBDA e : e.name \in names[1]) ELSE m

\* `if input and ...` / `if output and ...`: the truth value of the list
list_truthy(names) == names # None /\ names[1] # {}

\* guard(input, output, config, on_block), lines 19-22: the configuration is
\* loaded, the scanners are selected and the Guard is built from the
\* selection; a caller is about to call the wrapped function.
InitDecorator ==
    /\ PipelineIdle
    /\ ResolveIdle
    /\ ExecuteIdle
    /\ BuildIdle
    /\ ScannerIdle
    /\ PIIIdle
    /\ LimiterIdle
    /\ ErrorIdle
    /\ RunNotCalled
    /\ CallsIdle
    /\ guard_args \in {Some(a) : a \in [input : NameLists(InputConfigNames),
                                        output : NameLists(OutputConfigNames)]}
    /\ guard_config \in {Some(c) : c \in [input : ConfigMapsOf(InputConfigNames, {BLOCK}, MaxBuilt),
                                          output : ConfigMapsOf(OutputConfigNames, {BLOCK}, MaxBuilt)]}
    /\ config_input = select_scanners(guard_config[1].input, guard_args[1].input)
    /\ config_output = select_scanners(guard_config[1].output, guard_args[1].output)
    /\ settings_fail_action = BLOCK
    /\ input_pipeline = build_pipeline(config_input, INPUT_SCANNERS, settings_fail_action)
    /\ output_pipeline = build_pipeline(config_output, OUTPUT_SCANNERS, settings_fail_action)
    /\ default_action = settings_fail_action
    /\ action_overrides = ApplyOverrides(ApplyOverrides(<<>>, config_input), config_output)
    /\ policy_arg = None
    /\ decision = None
    /\ enforced = None
    /\ adapter \in {a \in Adapters : /\ a.kind = "decorator"
                                     /\ a.input = list_truthy(guard_args[1].input)
                                     /\ a.output = list_truthy(guard_args[1].output)}
    /\ limiter_hits = 0
    /\ caller_prompt \in {None, Some(Prompt)}
    /\ adapter_pc = "start"
    /\ prompt_text = None
    /\ input_result = None
    /\ model_call = None
    /\ model_response = None
    /\ output_context = None
    /\ output_result = None
    /\ outcome = None

\* a call of the wrapped function: the steps of the wrapper
NextDecorator ==
    \/ InputScanRaises
    \/ OutputScanRaises
    \/ AdapterCall
    \/ ModelReturns
    \/ AdapterOutput

SpecDecorator == InitDecorator /\ [][NextDecorator]_vars

\* =================================================================== claims
\* The position at which a scanner name was registered.
IndexOf(name) == CHOOSE i \in 1..MaxScanners : NameOf(i) = name

Returned_ == result[1]

\* The ScanResults recorded through tier t.
ThroughTier(rs, t) == SelectSeq(rs, LAMBDA r : r.tier <= t)

\* Tier t has scanners and the result of each of them has been recorded.
TierJoined(t) ==
    /\ \E i \in Idx : scanners[i].tier = t
    /\ \A i \in Idx : scanners[i].tier = t =>
          \E k \in DOMAIN all_results : all_results[k].scanner = scanners[i].name

\* C1: the PipelineResult returned by Pipeline.run has passed = TRUE exactly
\* when every ScanResult in its results has passed = TRUE (so a run that
\* executed no scanner returns passed = TRUE).
C1_PassedIsConjunction ==
    pc = "done" =>
        /\ Returned_.passed = (\A k \in DOMAIN Returned_.results : Returned_.results[k].passed)
        /\ (Returned_.results = <<>> => Returned_.passed)

\* C1 witness: a returned result with a passing ScanResult recorded after a
\* failing one.
C1_Witness ==
    /\ pc = "done"
    /\ Len(Returned_.results) = 2
    /\ ~Returned_.results[1].passed
    /\ Returned_.results[2].passed
    /\ ~Returned_.passed

\* C2: with fail_fast enabled, once a tier has completed and the action
\* resolved from the results recorded through it is BLOCK, no scanner of a
\* later tier is ever executed, and the returned PipelineResult has
\* passed = FALSE and action_taken = BLOCK.
C2_FailFast ==
    \A t \in Tier :
        (/\ fail_fast
         /\ pc \in {"loop", "gather", "done"}
         /\ TierJoined(t)
         /\ resolve_action(ThroughTier(all_results, t), scanner_actions, fail_action) = BLOCK)
        => /\ \A i \in Idx : scanners[i].tier > t => (ran[i] = 0 /\ status[i] = "idle")
           /\ pc = "done" => (~Returned_.passed /\ Returned_.action_taken = BLOCK)

\* C2 witness: a run returned BLOCK after its first tier and left a scanner
\* of a later tier unexecuted.
C2_Witness ==
    /\ pc = "done"
    /\ fail_fast
    /\ Returned_.action_taken = BLOCK
    /\ Len(Returned_.results) = 1
    /\ \E i \in Idx : scanners[i].tier > Returned_.results[1].tier /\ ran[i] = 0

\* No completed tier that is followed by a tier with scanners resolved to BLOCK.
NeverBlockedBetweenTiers ==
    \A t \in Tier :
        (TierJoined(t) /\ \E i \in Idx : scanners[i].tier > t)
        => resolve_action(ThroughTier(all_results, t), scanner_actions, fail_action) # BLOCK

\* C3: fail-fast triggers only on BLOCK.  No scanner is ever executed twice;
\* and a run in which fail_fast is disabled, or in which the action resolved
\* after each completed tier is LOG, WARN or REDACT, executes every
\* registered scanner exactly once and returns exactly one ScanResult per
\* registered scanner.
C3_OnlyBlockStops ==
    /\ \A i \in Idx : ran[i] <= 1
    /\ \A t \in Tier :
          (/\ pc = "done"
           /\ TierJoined(t)
           /\ ~fail_fast \/ resolve_action(ThroughTier(all_results, t),
                                           scanner_actions, fail_action) # BLOCK)
          => \A i \in Idx : (scanners[i].tier > t
                             /\ \A j \in Idx : ~(t < scanners[j].tier
                                                 /\ scanners[j].tier < scanners[i].tier))
                            => ran[i] = 1
    /\ (pc = "done" /\ (~fail_fast \/ NeverBlockedBetweenTiers))
          => /\ \A i \in Idx : ran[i] = 1
             /\ Len(Returned_.results) = Len(scanners)
             /\ \A i \in Idx :
                   Cardinality({k \in DOMAIN Returned_.results :
                                   Returned_.results[k].scanner = scanners[i].name}) = 1

\* C3 witness: with fail_fast enabled a scanner failed with a configured
\* action lower than BLOCK and the scanner of the later tier still ran.
C3_Witness ==
    /\ pc = "done"
    /\ fail_fast
    /\ Len(Returned_.results) = 2
    /\ ~Returned_.results[1].passed
    /\ Returned_.results[1].tier < Returned_.results[2].tier
    /\ Returned_.action_taken \in {LOG, WARN, REDACT}

\* The configured action of a scanner: its entry in the override map, else
\* the default fail action.
Configured(name) ==
    IF name \in DOMAIN scanner_actions THEN scanner_actions[name] ELSE fail_action

FailedIn(rs) == {k \in DOMAIN rs : ~rs[k].passed}

\* C4: action_taken is the highest-ranked (LOG < WARN < REDACT < BLOCK)
\* configured action among the failed ScanResults, and LOG when none failed.
C4_ActionResolution ==
    pc = "done" =>
        LET rs == Returned_.results
            a  == Returned_.action_taken
        IN  /\ FailedIn(rs) = {} => a = LOG
            /\ FailedIn(rs) # {} =>
                  /\ \E k \in FailedIn(rs) : a = Configured(rs[k].scanner)
                  /\ \A k \in FailedIn(rs) :
                        (Configured(rs[k].scanner) = a
                         \/ (a = BLOCK)
                         \/ (a = REDACT /\ Configured(rs[k].scanner) \in {WARN, LOG})
                         \/ (a = WARN /\ Configured(rs[k].scanner) = LOG))

\* C4 witness: two scanners failed, the first with an override that ranks
\* higher than the default fail action applied to the second.
C4_Witness ==
    /\ pc = "done"
    /\ Len(Returned_.results) = 2
    /\ \A k \in 1..2 : ~Returned_.results[k].passed
    /\ Returned_.results[1].scanner \in DOMAIN scanner_actions
    /\ Returned_.results[2].scanner \notin DOMAIN scanner_actions
    /\ scanner_actions[Returned_.results[1].scanner] = REDACT
    /\ fail_action = WARN
    /\ Returned_.action_taken = REDACT

\* C9: tiers execute in the order FAST, MEDIUM, SLOW and are never
\* interleaved: the scanners running at any moment belong to one tier; a
\* scanner is started only after every scanner of every earlier tier has
\* completed; the scanners of a tier are started together and, whenever the
\* run is between tiers or has returned, every started scanner has completed
\* and its result is recorded (none is cancelled).
C9_TierOrdering ==
    /\ \A i, j \in Idx :
          (status[i] = "running" /\ status[j] = "running")
          => scanners[i].tier = scanners[j].tier
    /\ \A i, j \in Idx :
          (ran[i] > 0 /\ scanners[j].tier < scanners[i].tier)
          => (status[j] = "done"
              /\ \E k \in DOMAIN all_results : all_results[k].scanner = scanners[j].name)
    /\ \A i, j \in Idx :
          (ran[i] > 0 /\ scanners[j].tier = scanners[i].tier) => ran[j] > 0
    /\ pc \in {"loop", "done"} =>
          \A i \in Idx : ran[i] > 0 =>
              (status[i] = "done"
               /\ \E k \in DOMAIN all_results : all_results[k].scanner = scanners[i].name)

\* C9 witness: the scanner registered first is of a later tier than the
\* scanner registered second, and it is running after the other completed
\* with a failure.
C9_Witness ==
    /\ pc = "gather"
    /\ Len(scanners) = 2
    /\ scanners[1].tier > scanners[2].tier
    /\ status[1] = "running"
    /\ status[2] = "done"
    /\ ~all_results[1].passed

\* The recorded results are ordered by tier, then by registration order.
Ordered(rs) ==
    \A k, l \in DOMAIN rs :
        k < l => \/ rs[k].tier < rs[l].tier
                 \/ (rs[k].tier = rs[l].tier /\ IndexOf(rs[k].scanner) < IndexOf(rs[l].scanner))

OrderedNames(ns) ==
    \A k, l \in DOMAIN ns :
        k < l => \/ scanners[IndexOf(ns[k])].tier < scanners[IndexOf(ns[l])].tier
                 \/ (scanners[IndexOf(ns[k])].tier = scanners[IndexOf(ns[l])].tier
                     /\ IndexOf(ns[k]) < IndexOf(ns[l]))

\* C10: whatever the completion order of the scanners of a tier, the
\* ScanResults are recorded in registration order within the tier and by
\* tier overall, and so are the derived findings and failed_scanners.
C10_ResultOrder ==
    /\ Ordered(all_results)
    /\ pc = "done" =>
          /\ Ordered(Returned_.results)
          /\ OrderedNames(failed_scanners(Returned_.results))
          /\ OrderedNames([k \in DOMAIN findings(Returned_.results) |->
                              findings(Returned_.results)[k].scanner])

\* C10 witness: two scanners of one tier both failed, the one registered
\* second completed first, and the results are in registration order.
C10_Witness ==
    /\ pc = "done"
    /\ order = <<2, 1>>
    /\ Len(Returned_.results) = 2
    /\ Returned_.results[1].scanner = NameOf(1)
    /\ failed_scanners(Returned_.results) = <<NameOf(1), NameOf(2)>>

\* ------------------------------------------------- claims on the Policy Engine
Arg == policy_arg[1]

\* A failed scanner of the result is overridden to BLOCK in the engine's table.
FailedOverriddenToBlock ==
    \E k \in DOMAIN Arg.results :
        /\ ~Arg.results[k].passed
        /\ Arg.results[k].scanner \in DOMAIN action_overrides
        /\ action_overrides[Arg.results[k].scanner] = BLOCK

\* C5: for a PipelineResult with passed = FALSE whose action_taken is lower
\* than BLOCK, if a failed scanner's action in the engine's override table is
\* BLOCK then decide returns action BLOCK with blocked = TRUE and enforce
\* raises PolicyViolation.
C5_BlockVeto ==
    (~Arg.passed /\ Arg.action_taken # BLOCK /\ FailedOverriddenToBlock)
    => /\ decision # None => (decision[1].action = BLOCK /\ decision[1].blocked)
       /\ enforced # None => (enforced[1].kind = "raise" /\ enforced[1].raised # None)

\* C5 witness: enforce was called on a failed result whose action_taken is
\* WARN while one of its failed scanners is overridden to BLOCK.
C5_Witness ==
    /\ enforced # None
    /\ ~Arg.passed
    /\ Arg.action_taken = WARN
    /\ FailedOverriddenToBlock
    /\ default_action = WARN

\* C6: enforce raises PolicyViolation exactly when the action decide resolved
\* is BLOCK; the PolicyViolation carries the same PipelineResult and its
\* message lists the names of the failed scanners; for LOG, WARN and REDACT
\* enforce returns normally.
C6_RaiseIffBlock ==
    enforced # None =>
        /\ (enforced[1].kind = "raise") = (decision[1].action = BLOCK)
        /\ enforced[1].kind \in {"raise", "return"}
        /\ (enforced[1].raised # None) = (enforced[1].kind = "raise")
        /\ enforced[1].kind = "raise" =>
              LET e == enforced[1].raised[1]
                  listed == e.message[2]
              IN  /\ e.result = Arg
                  /\ \A n \in Names :
                        (\E k \in DOMAIN listed : listed[k] = n)
                        = (\E k \in DOMAIN Arg.results :
                              Arg.results[k].scanner = n /\ ~Arg.results[k].passed)

\* C6 witness: enforce raised for a result the Pipeline had resolved lower
\* than BLOCK, with two failed scanners listed.
C6_Witness ==
    /\ enforced # None
    /\ enforced[1].kind = "raise"
    /\ Arg.action_taken = REDACT
    /\ Len(enforced[1].raised[1].message[2]) = 2

\* C7: when the resolved action is REDACT enforce returns the PipelineResult's
\* sanitized text; when it is WARN or LOG enforce returns None, whatever
\* sanitized text the PipelineResult holds.
C7_EnforceReturn ==
    enforced # None =>
        /\ decision[1].action = REDACT =>
              (enforced[1].kind = "return" /\ enforced[1].value = Arg.sanitized)
        /\ decision[1].action \in {WARN, LOG} =>
              (enforced[1].kind = "return" /\ enforced[1].value = None)

\* C7 witness: enforce resolved WARN for a failed result that holds a
\* sanitized text.
C7_Witness ==
    /\ enforced # None
    /\ ~Arg.passed
    /\ decision[1].action = WARN
    /\ Arg.sanitized # None

\* C7 witness of the REDACT case.
C7_WitnessRedact ==
    /\ enforced # None
    /\ decision[1].action = REDACT
    /\ enforced[1].value # None

\* C8: for a PipelineResult with passed = TRUE decide returns action LOG,
\* blocked = FALSE and no sanitized text, whatever its action_taken and the
\* override table, and enforce does not raise.
C8_PassedIsLog ==
    Arg.passed =>
        /\ decision # None => decision[1] = [action |-> LOG, blocked |-> FALSE, sanitized |-> None]
        /\ enforced # None => (enforced[1].kind = "return" /\ enforced[1].raised = None)

\* C8 witness: enforce was called on a passed result whose action_taken is
\* BLOCK, whose sanitized text is set and one of whose ScanResults failed
\* with an override of BLOCK.
C8_Witness ==
    /\ enforced # None
    /\ Arg.passed
    /\ Arg.action_taken = BLOCK
    /\ Arg.sanitized # None
    /\ FailedOverriddenToBlock

\* ------------------------------------------------------- C11 .. C14 (Spec)
\* The ScanResults of rs that carry sanitized text.
Rewriters(rs) == {k \in DOMAIN rs : rs[k].sanitized # None}

Largest(S) == CHOOSE k \in S : \A l \in S : l <= k

\* The last non-null sanitized text recorded in rs, or t0 when there is none.
LastSanitized(rs, t0) ==
    IF Rewriters(rs) = {} THEN t0 ELSE rs[Largest(Rewriters(rs))].sanitized[1]

\* Verdict q was given by a scanner that comes before the scanner of verdict
\* r: an earlier tier, or the same tier and registered earlier.
Before(q, r) ==
    \/ q.tier < r.tier
    \/ (q.tier = r.tier /\ IndexOf(q.scanner) < IndexOf(r.scanner))

\* The answer as a function of the SET of verdicts alone.
VerdictsOf(rs) == {rs[k] : k \in DOMAIN rs}

PassedOf(V) == \A r \in V : r.passed

ActionOf(V) ==
    LET as == {Configured(r.scanner) : r \in {q \in V : ~q.passed}} \cup {LOG}
    IN  CHOOSE a \in as : \A b \in as : rank[b] <= rank[a]

SanitizedOf(V, t0) ==
    LET W == {r \in V : r.sanitized # None}
    IN  IF W = {} THEN None
        ELSE LET last == CHOOSE r \in W : \A q \in W : q = r \/ Before(q, r)
             IN  IF last.sanitized[1] = t0 THEN None ELSE last.sanitized

\* The scanners of the gather that has just been joined.
Joined == {order[k] : k \in DOMAIN order}

\* C11: for fixed scanner verdicts the returned passed, action_taken and
\* sanitized are a function of the set of verdicts, so they are the same for
\* every completion order of the scanners of a tier; when several scanners
\* of one tier return sanitized text, the text carried forward after the
\* gather is that of the scanner registered last among them, whichever of
\* them finished first.
C11_OrderIndependent ==
    /\ pc = "done" =>
          /\ Returned_.passed = PassedOf(VerdictsOf(Returned_.results))
          /\ Returned_.action_taken = ActionOf(VerdictsOf(Returned_.results))
          /\ Returned_.sanitized = SanitizedOf(VerdictsOf(Returned_.results), text)
    /\ (pc = "loop" /\ order # <<>>) =>
          LET rew == {i \in Joined : tier_results[i][1].sanitized # None}
          IN  sanitized = IF rew = {} THEN seen[Largest(Joined)][1]
                          ELSE tier_results[Largest(rew)][1].sanitized[1]

\* C11 witness: two scanners of one tier both returned a redacted text, the
\* one registered second finished first, and the run has returned.
C11_Witness ==
    /\ pc = "done"
    /\ order = <<2, 1>>
    /\ tier_results[1] # None
    /\ tier_results[2] # None
    /\ tier_results[1][1].sanitized = Some({1})
    /\ tier_results[2][1].sanitized = Some({2})
    /\ ~tier_results[1][1].passed

\* C12: every scanner that was invoked was handed the running sanitized
\* text left by the earlier tiers (the caller's text when no earlier scanner
\* returned sanitized text, otherwise the last sanitized text recorded by
\* then) and the caller's context; two scanners of one tier were handed the
\* same arguments, and neither was handed a text carrying the other's
\* redaction.
C12_SanitizationChaining ==
    \A i \in Idx :
        ran[i] > 0 =>
            /\ seen[i] = Some(LastSanitized(ThroughTier(all_results, scanners[i].tier - 1), text))
            /\ seen_context[i] = Some(context)
            /\ \A j \in Idx :
                  (ran[j] > 0 /\ scanners[j].tier = scanners[i].tier) =>
                      /\ seen[j] = seen[i]
                      /\ seen_context[j] = seen_context[i]
                      /\ j \notin seen[i][1]

\* C12 witness: a scanner of an earlier tier redacted the text, and a scanner
\* of a later tier was invoked with the redacted text.
C12_Witness ==
    /\ Len(scanners) = 2
    /\ scanners[1].tier < scanners[2].tier
    /\ all_results # <<>>
    /\ all_results[1].sanitized = Some({1})
    /\ ran[2] = 1
    /\ seen[2] = Some({1})
    /\ seen_context[2] = Some(context)

\* C13: the returned sanitized text carries the redaction of every scanner
\* that redacted the text in the run.
C13_AllRedactionsKept ==
    pc = "done" =>
        \A k \in DOMAIN Returned_.results :
            LET r == Returned_.results[k]
            IN  (r.sanitized # None /\ IndexOf(r.scanner) \in r.sanitized[1]) =>
                    /\ Returned_.sanitized # None
                    /\ IndexOf(r.scanner) \in Returned_.sanitized[1]

\* C14: the returned sanitized is set exactly when the final running
\* sanitized text (the last non-null sanitized text recorded, or the input
\* when there is none) differs from the caller's input, and then it is that
\* text; it is None when no scanner returned text and when the last text
\* returned equals the input.
C14_SanitizedSetIffChanged ==
    pc = "done" =>
        LET final == LastSanitized(Returned_.results, text)
        IN  /\ (Returned_.sanitized # None) = (final # text)
            /\ Returned_.sanitized # None => Returned_.sanitized = Some(final)
            /\ Rewriters(Returned_.results) = {} => Returned_.sanitized = None

\* C14 witness: the only scanner returned a sanitized text equal to the
\* input, and the run returned sanitized = None.
C14_Witness ==
    /\ pc = "done"
    /\ Len(Returned_.results) = 1
    /\ Returned_.results[1].sanitized = Some(text)
    /\ Returned_.sanitized = None

\* ------------------------------------------------------ C15 (SpecResolve)
\* The names of the scanners that failed in rs.
FailedNames(rs) == {rs[k].scanner : k \in FailedIn(rs)}

\* The highest-ranked action configured for a set of scanner names, LOG for
\* the empty set.
HighestOf(ns) ==
    LET as == {ConfiguredAction(n, scanner_actions, fail_action) : n \in ns} \cup {LOG}
    IN  CHOOSE a \in as : \A b \in as : rank[b] <= rank[a]

\* C15: the resolved action is determined by the set of failed scanners, the
\* override map and the default; adding one failed ScanResult anywhere in
\* the list never lowers it and raises it to the added scanner's action
\* when that action ranks higher; adding a passed ScanResult leaves it
\* unchanged.
C15_RankMonotonic ==
    resolved # None =>
        /\ resolved[1] = HighestOf(FailedNames(resolve_results))
        /\ resolve_prev # None =>
              LET before == resolve_prev[1].action
                  added == resolve_prev[1].added
                  mine == ConfiguredAction(added.scanner, scanner_actions, fail_action)
              IN  /\ rank[resolved[1]] >= rank[before]
                  /\ added.passed => resolved[1] = before
                  /\ (~added.passed /\ rank[mine] > rank[before]) => resolved[1] = mine
                  /\ (~added.passed /\ rank[mine] <= rank[before]) => resolved[1] = before

\* C15 witness: a failed ScanResult whose action ranks higher was added in
\* front of a failed one, and the resolution rose to the added action.
C15_Witness ==
    /\ resolved # None
    /\ resolve_prev # None
    /\ Len(resolve_results) = 2
    /\ ~resolve_results[2].passed
    /\ resolve_results[1] = resolve_prev[1].added
    /\ ~resolve_prev[1].added.passed
    /\ resolve_prev[1].action = WARN
    /\ resolved[1] = REDACT

\* ------------------------------------------- C16 .. C18, C20 (SpecGuard)
\* C16: once the input scan of Guard.run has come back not passed with
\* resolved action BLOCK, the run has returned, the Report has blocked =
\* TRUE and no output_result, and scan_output was not called, also when an
\* output_text was supplied.
C16_InputShortCircuit ==
    (/\ report.input_result # None
     /\ ~report.input_result[1].passed
     /\ report.input_result[1].action_taken = BLOCK) =>
        /\ run_pc = "done"
        /\ report.blocked
        /\ report.output_result = None
        /\ ctx = None

\* C16 witness: a run given both texts whose input scan failed with BLOCK.
C16_Witness ==
    /\ run_pc = "done"
    /\ input_text = Some(Prompt)
    /\ output_text = Some(Response)
    /\ report.input_result # None
    /\ ~report.input_result[1].passed
    /\ report.input_result[1].action_taken = BLOCK
    /\ report.blocked
    /\ report.output_result = None

\* C17: when the input phase did not block and the output was scanned, the
\* context handed to the output scanners carries as input_text the input
\* pipeline's sanitized text when the input scan rewrote the input, and the
\* original input text otherwise (stated here for the non-empty input
\* texts only).
C17_ContextCarriesSanitizedInput ==
    (ctx # None /\ input_text # None /\ Truthy(input_text[1])) =>
        ctx[1].input_text =
            IF report.input_result[1].sanitized # None
            THEN report.input_result[1].sanitized
            ELSE input_text

\* C18: Report.passed is TRUE exactly when every phase result present in the
\* Report has passed = TRUE, an absent phase counting as passed.
C18_ReportPassed ==
    Report_passed(report) =
        /\ (report.input_result # None => report.input_result[1].passed)
        /\ (report.output_result # None => report.output_result[1].passed)

\* C18 witness: a Report without input_result whose output_result passed,
\* so that Report.passed is TRUE.
C18_Witness ==
    /\ run_pc = "done"
    /\ report.input_result = None
    /\ report.output_result # None
    /\ report.output_result[1].passed
    /\ Len(report.output_result[1].results) = 1
    /\ Report_passed(report)

\* The names with an enabled entry in both maps of the configuration.
InBothMaps ==
    {n \in InputConfigNames \cap OutputConfigNames :
        /\ \E k \in DOMAIN config_input : config_input[k].name = n /\ config_input[k].enabled
        /\ \E k \in DOMAIN config_output : config_output[k].name = n /\ config_output[k].enabled}

\* The phase result r records the failure of scanner n and of no other.
OnlyFailed(r, n) == r # None /\ failed_scanners(r[1].results) = <<n>>

\* C20: a scanner name configured in both maps carries one action: its
\* failure is resolved to the same action by the pipeline and by
\* PolicyEngine.decide, in the input pipeline and in the output pipeline.
C20_SameNameSameAction ==
    \A n \in InBothMaps :
        /\ OnlyFailed(report.input_result, n) =>
              report.input_result[1].action_taken =
                  decide(report.input_result[1], action_overrides, default_action).action
        /\ OnlyFailed(report.output_result, n) =>
              report.output_result[1].action_taken =
                  decide(report.output_result[1], action_overrides, default_action).action
        /\ (OnlyFailed(report.input_result, n) /\ OnlyFailed(report.output_result, n)) =>
              report.input_result[1].action_taken = report.output_result[1].action_taken

\* --------------------------------------------------- C19 (SpecConcurrent)
\* What the output scanners of call k read from their context when k is
\* the only call.
AloneDict(k) ==
    IF k.kind = "scan_output" THEN k.context
    ELSE LET base == IF k.context # None /\ DictTruthy(k.context[1])
                     THEN k.context[1] ELSE EmptyDict
         IN  Some(IF k.input_text # None /\ Truthy(k.input_text[1])
                  THEN [base EXCEPT !.input_text = k.input_text] ELSE base)

AloneInput(k) ==
    PipelineRun(input_pipeline, k.input_text[1], k.context,
                DetVerdicts(input_pipeline, k.input_text[1], k.context))

AloneOutput(k) ==
    PipelineRun(output_pipeline, k.output_text[1], AloneDict(k),
                DetVerdicts(output_pipeline, k.output_text[1], AloneDict(k)))

\* What call k returns when it is the only call on the Guard.
Alone(k) ==
    CASE k.kind = "scan_input" ->
            [NewReport EXCEPT !.input_result = Some(AloneInput(k))]
      [] k.kind = "scan_output" ->
            [NewReport EXCEPT !.output_result = Some(AloneOutput(k))]
      [] k.kind = "run" ->
            LET inp == IF k.input_text = None THEN None ELSE Some(AloneInput(k))
                stop == inp # None /\ ~inp[1].passed /\ inp[1].action_taken = BLOCK
                out == IF stop \/ k.output_text = None THEN None
                       ELSE Some(AloneOutput(k))
            IN  [input_result |-> inp,
                 output_result |-> out,
                 blocked |-> \/ stop
                             \/ (out # None /\ ~out[1].passed
                                 /\ out[1].action_taken = BLOCK)]

C21_ExecuteStamps ==
    execute_returned # None =>
        /\ execute_returned[1].scanner = self_scanner.name
        /\ execute_returned[1].tier = self_scanner.tier
        /\ execute_returned[1].passed = scan_returned.passed
        /\ execute_returned[1].score = scan_returned.score
        /\ execute_returned[1].findings = scan_returned.findings
        /\ execute_returned[1].sanitized = scan_returned.sanitized

\* execute has returned for a scan that wrote another name and another tier
\* into its result, failed, and rewrote the text.
C21_Witness ==
    /\ execute_returned # None
    /\ scan_returned.scanner # self_scanner.name
    /\ scan_returned.tier # self_scanner.tier
    /\ ~scan_returned.passed
    /\ scan_returned.sanitized # None

\* The positions of the entries of map m that are enabled and whose name
\* the registry holds.
Usable(m, registry) == {i \in DOMAIN m : m[i].enabled /\ m[i].name \in registry}

\* names lists exactly the entries of m at the positions K, in the order of m
SelectedInOrder(names, m, K) ==
    /\ Len(names) = Cardinality(K)
    /\ \A k \in DOMAIN names :
          \E i \in K : /\ m[i].name = names[k]
                       /\ Cardinality({j \in K : j < i}) = k - 1

\* The names of the scanners that produced the results of the last scan.
ExecutedNames == [k \in DOMAIN scan_call[1].result.results |->
                     scan_call[1].result.results[k].scanner]

\* C22: the pipeline of each direction holds exactly the enabled and
\* registered scanners of that direction's map, in configuration order
\* (an unknown name is skipped, a disabled entry is not instantiated), and
\* scan_input / scan_output execute these scanners and no other.
C22_BuiltFromConfig ==
    /\ SelectedInOrder(input_pipeline.scanners, config_input,
                       Usable(config_input, INPUT_SCANNERS))
    /\ SelectedInOrder(output_pipeline.scanners, config_output,
                       Usable(config_output, OUTPUT_SCANNERS))
    /\ scan_call # None /\ scan_call[1].direction = "input" =>
          SelectedInOrder(ExecutedNames, config_input,
                          Usable(config_input, INPUT_SCANNERS))
    /\ scan_call # None /\ scan_call[1].direction = "output" =>
          SelectedInOrder(ExecutedNames, config_output,
                          Usable(config_output, OUTPUT_SCANNERS))

\* scan_input has run on a Guard whose input map names an unregistered
\* scanner first and a registered one second, and whose output map holds a
\* disabled entry; one scanner was executed.
C22_Witness ==
    /\ scan_call # None
    /\ scan_call[1].direction = "input"
    /\ Len(config_input) = 2
    /\ config_input[1].enabled
    /\ config_input[1].name \notin INPUT_SCANNERS
    /\ config_input[2].enabled
    /\ config_input[2].name \in INPUT_SCANNERS
    /\ Len(ExecutedNames) = 1
    /\ \E i \in DOMAIN config_output : ~config_output[i].enabled

\* What PolicyEngine.enforce answers for the result of the adapter's input
\* scan, and for the result of its output scan.
EnforceInput == enforce(input_result[1], action_overrides, default_action)
EnforceOutput == enforce(output_result[1], action_overrides, default_action)

InputFailed == input_result # None /\ ~input_result[1].passed
OutputFailed == output_result # None /\ ~output_result[1].passed

\* enforce answers a sanitized text for e
Redacts(e) == e.kind = "return" /\ e.value # None /\ Truthy(e.value[1])

\* The guarded call ended with a PolicyViolation.
EndedWithPolicyViolation ==
    /\ outcome # None
    /\ outcome[1].kind = "raise"
    /\ IsPolicyViolation(outcome[1].error[1])

\* The proxy answered with the HTTP status code.
EndedWithStatus(code) ==
    /\ outcome # None
    /\ outcome[1].kind = "raise"
    /\ "status_code" \in DOMAIN outcome[1].error[1]
    /\ outcome[1].error[1].status_code = code

\* C23: in the decorator and in the two client wrappers, when the input
\* scan fails and the resolved action is BLOCK, the wrapped function is
\* never invoked and the guarded call ends with PolicyViolation and no other
\* error, or, for a decorator with on_block, with the callback's result.
C23_InputBlockEndsInPolicyViolation ==
    /\ adapter.kind \in {"decorator", "openai", "anthropic"}
    /\ InputFailed
    /\ input_result[1].action_taken = BLOCK
    /\ EnforceInput.kind = "raise"
    => /\ model_call = None
       /\ IF adapter.on_block
          THEN outcome = Some(Returns(on_block(input_result[1])))
          ELSE EndedWithPolicyViolation

\* C24: in every adapter, when enforce on the failed input scan answers a
\* sanitized prompt, the wrapped function is invoked with the sanitized
\* prompt in place of the original.
C24_ModelCalledWithSanitizedPrompt ==
    /\ InputFailed
    /\ adapter.api_key
    /\ Redacts(EnforceInput)
    => /\ model_call # None
       /\ model_call[1].prompt = EnforceInput.value

\* C25: every adapter scans a text response with the context
\* {"input_text": prompt}; when enforce answers a sanitized response the
\* caller receives the response with that text and none of the original
\* text, and when enforce blocks the caller does not receive the response.
C25_OutputScannedAndSubstituted ==
    /\ adapter_pc \in {"output", "done"} /\ output_context # None =>
          /\ output_context[1].input_text \in {caller_prompt, prompt_text}
    /\ OutputFailed /\ Redacts(EnforceOutput) =>
          /\ outcome # None
          /\ outcome[1].kind = "return"
          /\ outcome[1].value[1][1] = EnforceOutput.value[1]
          /\ \A k \in DOMAIN outcome[1].value[1] :
                \A j \in DOMAIN model_response[1] :
                   outcome[1].value[1][k] # model_response[1][j]
    /\ OutputFailed /\ EnforceOutput.kind = "raise" =>
          outcome # Some(Returns(model_response[1]))

\* C26: with the default fail action BLOCK, when the input scan fails and
\* the only failed scanner is configured with action WARN, enforce raises no
\* error, the wrapped function is invoked, and its response is returned to
\* the caller (unless the output scan fails in turn).
C26_WarnDoesNotBlock ==
    /\ InputFailed
    /\ settings_fail_action = BLOCK
    /\ adapter.api_key
    /\ \A k \in DOMAIN input_result[1].results :
          ~input_result[1].results[k].passed =>
             \E i \in DOMAIN config_input :
                /\ config_input[i].name = input_result[1].results[k].scanner
                /\ config_input[i].action = WARN
    => /\ model_call # None
       /\ adapter_pc = "done" /\ model_response # None /\ ~OutputFailed =>
             outcome = Some(Returns(model_response[1]))

\* C27: in the proxy, a rate-limit rejection is a 429 that comes before any
\* scan and any upstream call; a blocked input is a 400 carrying the failed
\* scanner names and the findings, and the upstream is never called; a
\* blocked output is a 400 carrying them, and the upstream body is not
\* returned; a redacted output is returned with the assistant text rewritten.
C27_ProxyMapping ==
    adapter.kind = "proxy" =>
       /\ EndedWithStatus(429) =>
             input_result = None /\ model_call = None /\ output_result = None
       /\ InputFailed /\ EnforceInput.kind = "raise" =>
             /\ model_call = None
             /\ outcome = Some(Raises(HTTPException(400,
                   [error |-> "blocked_input",
                    failed_scanners |-> failed_scanners(input_result[1].results),
                    findings |-> findings(input_result[1].results)])))
       /\ OutputFailed /\ EnforceOutput.kind = "raise" =>
             outcome = Some(Raises(HTTPException(400,
                   [error |-> "blocked_output",
                    failed_scanners |-> failed_scanners(output_result[1].results),
                    findings |-> findings(output_result[1].results)])))
       /\ OutputFailed /\ Redacts(EnforceOutput) =>
             outcome = Some(Returns(set_response_text(model_response[1],
                                                      EnforceOutput.value[1])))

\* The scanners whose scan method compares the score with the threshold.
ThresholdScanners == {"prompt_injection", "jailbreak", "toxicity", "relevance"}

\* C28 as stated: for every built-in scanner, passed is true whenever the
\* computed score is at least the configured threshold (in particular when
\* the two are equal).
C28_PassedWheneverScoreReachesThreshold ==
    scan_result # None =>
        (scan_result[1].score >= built_in.threshold => scan_result[1].passed)

\* C28, amended: the scanners that derive passed from the score pass
\* exactly when the computed score is at least the threshold, so a score
\* equal to the threshold passes; the pii, malicious_url and topic_ban
\* scanners pass exactly when there is no finding, whatever the threshold.
C28_ThresholdSemantics ==
    scan_result # None =>
        IF built_in.name \in ThresholdScanners
        THEN scan_result[1].passed <=> scan_result[1].score >= built_in.threshold
        ELSE scan_result[1].passed <=> scan_result[1].findings = <<>>

\* A prompt_injection scan with findings whose computed score is exactly the
\* threshold, and which passed.
C28_Witness ==
    /\ scan_result # None
    /\ built_in.name = "prompt_injection"
    /\ scan_result[1].findings # <<>>
    /\ scan_result[1].score = built_in.threshold
    /\ scan_result[1].passed

\* The 1-based positions of the scanned text that lie in the span of a finding.
Matched(fs) ==
    {k \in 1..Len(pii_text) : \E i \in DOMAIN fs :
        fs[i].start < k /\ k <= fs[i].end}

\* C29: when nothing is detected the PII scan passes with no findings and
\* no sanitized text; otherwise it fails and its sanitized text holds no
\* character of the span of any finding, overlapping spans of different
\* entity types included.
C29_PIIScanAndRedaction ==
    pii_result # None =>
        IF pii_findings = <<>>
        THEN /\ pii_result[1].passed
             /\ pii_result[1].findings = <<>>
             /\ pii_result[1].sanitized = None
        ELSE /\ ~pii_result[1].passed
             /\ pii_result[1].sanitized # None
             /\ \A k \in DOMAIN pii_result[1].sanitized[1] :
                    LET ch == pii_result[1].sanitized[1][k]
                    IN  ch.entity = "" => ch.index \notin Matched(pii_findings)

\* C30: a call of decide (alone or at the start of enforce) leaves the
\* PipelineResult, the override table and the default action as they were,
\* returns a PolicyDecision for whatever PipelineResult it is given, and
\* returns a decision equal to that of the call before it on the same
\* result and table.
C30_DecideIsPure ==
    [][decision' # None =>
          /\ policy_arg' = policy_arg
          /\ action_overrides' = action_overrides
          /\ default_action' = default_action
          /\ DOMAIN decision'[1] = {"action", "blocked", "sanitized"}
          /\ decision'[1].action \in Action
          /\ decision'[1].blocked \in BOOLEAN
          /\ (decision # None => decision' = decision)]_vars

\* decide was called, and called again by enforce, on a failed PipelineResult
\* with results in it while the override table held an entry.
C30_Witness ==
    /\ decision # None
    /\ enforced # None
    /\ action_overrides # <<>>
    /\ ~policy_arg[1].passed
    /\ policy_arg[1].results # <<>>

\* C31: no step of a run changes the pipeline's scanner list, its
\* per-scanner override map, its default fail action or its fail-fast flag,
\* nor the text the caller passed.
C31_RunReadOnly ==
    [][/\ scanners' = scanners
       /\ scanner_actions' = scanner_actions
       /\ fail_action' = fail_action
       /\ fail_fast' = fail_fast
       /\ text' = text]_vars

\* A run has returned on a pipeline with scanners and an override, after a
\* scanner rewrote the text it was handed.
C31_Witness ==
    /\ pc = "done"
    /\ result # None
    /\ result[1].results # <<>>
    /\ result[1].sanitized # None
    /\ scanner_actions # <<>>

\* The calls of allow(key) that returned True at a time in [from, from + length].
GrantedIn(key, from, length) ==
    {i \in DOMAIN granted[key] : from <= granted[key][i] /\ granted[key][i] <= from + length}

\* C32: for every key, no window of window_seconds holds more than
\* max_requests calls of allow that returned True.
C32_SlidingWindow ==
    self_limiter # None =>
        \A key \in Keys, from \in 0..MaxClock :
            Cardinality(GrantedIn(key, from, self_limiter[1].window_seconds))
                <= self_limiter[1].max_requests

\* A key was granted max_requests calls in one window, denied or not asked
\* again in it, and granted a call again once the window had moved on.
C32_Witness ==
    /\ self_limiter # None
    /\ self_limiter[1].max_requests >= 1
    /\ self_limiter[1].window_seconds >= 1
    /\ \E key \in Keys :
          /\ Len(granted[key]) > self_limiter[1].max_requests
          /\ Cardinality(GrantedIn(key, 0, self_limiter[1].window_seconds))
                = self_limiter[1].max_requests

\* q is what is left of the queue p once some of its oldest time stamps are
\* dropped.
IsSuffix(q, p) ==
    /\ Len(q) <= Len(p)
    /\ q = SubSeq(p, Len(p) - Len(q) + 1, Len(p))

\* C39: a call of allow that returns False queues no time stamp for its key;
\* a call for one key leaves the queue of every other key as it was; and,
\* max_requests being at least 1, a call made when every queued time stamp of
\* its key is more than window_seconds old returns True.
C39_FrameAndRecovery ==
    [][last_allow' # last_allow =>
          LET call == last_allow'[1]
          IN  /\ ~call.returned => IsSuffix(self_hits'[call.key], self_hits[call.key])
              /\ \A other \in Keys \ {call.key} : self_hits'[other] = self_hits[other]
              /\ (/\ self_limiter[1].max_requests >= 1
                  /\ \A i \in DOMAIN self_hits[call.key] :
                        call.now - self_hits[call.key][i] > self_limiter[1].window_seconds)
                 => call.returned]_vars

\* A key that had used its whole quota is granted a call again after its
\* queued time stamps left the window, while the other key has a time stamp
\* queued.
C39_Witness ==
    /\ last_allow # None
    /\ last_allow[1].returned
    /\ self_limiter[1].max_requests >= 1
    /\ Len(granted[last_allow[1].key]) > self_limiter[1].max_requests
    /\ self_hits[last_allow[1].key] = <<last_allow[1].now>>
    /\ \E other \in Keys \ {last_allow[1].key} : self_hits[other] # <<>>

\* The phase results present in the Report of Guard.run.
PhaseResults ==
    {r \in {report.input_result, report.output_result} : r # None}

\* C33: the Report that run returns has blocked = true exactly when the
\* Guard's Policy Engine decides blocked = true for the input result or the
\* output result present in it.
C33_BlockedAgreesWithPolicy ==
    run_pc = "done" =>
        (report.blocked <=>
            \E r \in PhaseResults : decide(r[1], action_overrides, default_action).blocked)

\* The names of the scanners that produced the results of a scan.
NamesIn(r) == {r[1].results[k].scanner : k \in DOMAIN r[1].results}

\* The names of the loaded configuration's enabled and registered scanners.
ConfiguredNames(m, registry) == {m[i].name : i \in Usable(m, registry)}

\* C40: a wrapped function is scanned only by the configured scanners named
\* in the decorator's lists, and a decorator created without a list for a
\* direction scans that direction with all the configured scanners (when
\* there are any): the
\* prompt before the function is invoked, a str response before it is
\* returned to the caller.
C40_DecoratorSelection ==
    guard_args # None =>
        /\ input_result # None =>
              /\ NamesIn(input_result) \subseteq ConfiguredNames(guard_config[1].input, INPUT_SCANNERS)
              /\ guard_args[1].input # None => NamesIn(input_result) \subseteq guard_args[1].input[1]
        /\ output_result # None =>
              /\ NamesIn(output_result) \subseteq ConfiguredNames(guard_config[1].output, OUTPUT_SCANNERS)
              /\ guard_args[1].output # None => NamesIn(output_result) \subseteq guard_args[1].output[1]
        /\ (/\ guard_args[1].input = None
            /\ ConfiguredNames(guard_config[1].input, INPUT_SCANNERS) # {}
            /\ caller_prompt # None /\ model_call # None) =>
              /\ input_result # None
              /\ NamesIn(input_result) = ConfiguredNames(guard_config[1].input, INPUT_SCANNERS)
        /\ (/\ guard_args[1].output = None
            /\ ConfiguredNames(guard_config[1].output, OUTPUT_SCANNERS) # {}
            /\ adapter_pc = "done"
            /\ model_response # None /\ model_response[1] # <<>>
            /\ outcome[1].kind = "return") =>
              /\ output_result # None
              /\ NamesIn(output_result) = ConfiguredNames(guard_config[1].output, OUTPUT_SCANNERS)

\* C34: once the scan method of a scanner has raised, the scan of that
\* direction has returned no PipelineResult, the guarded call has ended with
\* that error, and after an error at the input the wrapped model call was
\* not invoked.
C34_NeverFailOpen ==
    scan_error # None =>
        /\ scan_error[1].direction = "input" => input_result = None /\ model_call = None
        /\ scan_error[1].direction = "output" => output_result = None
        /\ adapter_pc = "done"
        /\ outcome # None
        /\ outcome[1].kind = "raise"
        /\ outcome[1].error = scan_error

\* A scanner of the input pipeline raised on the prompt of a decorated
\* function whose Guard has a second input scanner or an output scanner.
C34_Witness ==
    /\ scan_error # None
    /\ scan_error[1].direction = "input"
    /\ adapter.kind = "decorator"
    /\ caller_prompt = Some(Prompt)
    /\ Len(input_pipeline.scanners) + Len(output_pipeline.scanners) >= 2

\* C35: every decision decide returns has blocked = true exactly when its
\* action is BLOCK and a sanitized text only when its action is REDACT; for
\* a failed PipelineResult its action is the result's action_taken or BLOCK,
\* hence never ranked lower than action_taken.
C35_DecisionShape ==
    decision # None =>
        /\ decision[1].blocked <=> decision[1].action = BLOCK
        /\ decision[1].sanitized # None => decision[1].action = REDACT
        /\ ~Arg.passed =>
              /\ decision[1].action \in {Arg.action_taken, BLOCK}
              /\ rank[decision[1].action] >= rank[Arg.action_taken]

\* decide raised the action of a failed result from REDACT to BLOCK and
\* returned no sanitized text although the result holds one.
C35_Witness ==
    /\ decision # None
    /\ ~Arg.passed
    /\ Arg.action_taken = REDACT
    /\ Arg.sanitized # None
    /\ decision[1].action = BLOCK
    /\ decision[1].sanitized = None

\* A failed scanner of the result has no entry in the engine's table.
FailedWithoutOverride ==
    \E k \in DOMAIN Arg.results :
        /\ ~Arg.results[k].passed
        /\ Arg.results[k].scanner \notin DOMAIN action_overrides

\* C36: for a failed PipelineResult, when the default action is BLOCK a
\* failed scanner without an override makes the decision BLOCK whatever
\* action_taken is; when the default action is not BLOCK and no failed
\* scanner is overridden to BLOCK the decision's action is action_taken.
C36_DefaultFallback ==
    (decision # None /\ ~Arg.passed) =>
        /\ (default_action = BLOCK /\ FailedWithoutOverride) => decision[1].action = BLOCK
        /\ (default_action # BLOCK /\ ~FailedOverriddenToBlock) =>
              decision[1].action = Arg.action_taken

\* decide returned BLOCK for a result the Pipeline resolved to WARN, because
\* of the default action alone: the table has an entry, lower than BLOCK, for
\* another scanner.
C36_Witness ==
    /\ decision # None
    /\ ~Arg.passed
    /\ Arg.action_taken = WARN
    /\ default_action = BLOCK
    /\ FailedWithoutOverride
    /\ action_overrides # <<>>
    /\ ~FailedOverriddenToBlock
    /\ decision[1].action = BLOCK

\* C37: no step of Guard.run changes the context mapping the caller
\* passed.
C37_CallerContextUnchanged ==
    [][caller_context' = caller_context]_vars

\* C38: when run has returned, blocked = true implies Report.passed = false;
\* blocked is true exactly when a phase result of the Report has action_taken
\* = BLOCK; with only output_text supplied input_result is None and with
\* only input_text supplied output_result is None.
C38_ReportConsistent ==
    run_pc = "done" =>
        /\ report.blocked => ~Report_passed(report)
        /\ report.blocked <=> \E r \in PhaseResults : r[1].action_taken = BLOCK
        /\ (input_text = None /\ output_text # None) => report.input_result = None
        /\ (input_text # None /\ output_text = None) => report.output_result = None

\* run has returned a blocked Report for a call with an output text only.
C38_Witness ==
    /\ run_pc = "done"
    /\ input_text = None
    /\ output_text # None
    /\ report.blocked
    /\ report.input_result = None
    /\ report.output_result # None

====
